---- MODULE Spec2Model ----
(***************************************************************************)
(* A model of the REST configuration section of Taipy:                     *)
(*   taipy/rest/config/rest_config.py   (RestConfig)                       *)
(*   taipy/rest/config/rest_checker.py  (_RestConfigChecker)               *)
(*   taipy/rest/config/__init__.py      (_inject_section)                  *)
(*   taipy/common/config/_serializer/_base_serializer.py (_pythonify)      *)
(* together with the parts of taipy.common.config they call (Config,       *)
(* _Config, _TemplateHandler, IssueCollector), whose source is not part of *)
(* the excerpt.                                                            *)
(*                                                                         *)
(* Python values are tagged records; Python strings are sequences of       *)
(* lexical tokens, so that the regular expressions of the template handler *)
(* and of the serializer are decided by the shape of the string.  Objects  *)
(* that Python passes by reference (the RestConfig instances, each with    *)
(* its own _properties dict) live in a heap and are named by their ids.    *)
(***************************************************************************)
EXTENDS Integers, Sequences, FiniteSets, TLC

\* ------------------------------------------------------------------ values

PyNone == [t |-> "NoneType", i |-> 0, s |-> <<>>, b |-> FALSE]
PyInt(n) == [t |-> "int", i |-> n, s |-> <<>>, b |-> FALSE]
PyStr(toks) == [t |-> "str", i |-> 0, s |-> toks, b |-> FALSE]
PyBool(x) == [t |-> "bool", i |-> 0, s |-> <<>>, b |-> x]
\* a float, kept as the numeral that spells it
PyFloat(toks) == [t |-> "float", i |-> 0, s |-> toks, b |-> FALSE]

\* bool(v): Python truthiness
Truthy(v) ==
    CASE v.t = "NoneType" -> FALSE
      [] v.t = "bool" -> v.b
      [] v.t = "int" -> v.i # 0
      [] v.t = "str" -> v.s # <<>>
      [] v.t = "float" -> ~(Len(v.s) = 1 /\ v.s[1] = "0")
      [] OTHER -> TRUE

\* isinstance(v, int): bool is a subclass of int
IsInstanceInt(v) == v.t \in {"int", "bool"}

\* isinstance(v, str)
IsInstanceStr(v) == v.t = "str"

\* the integer a value compares as (True == 1, False == 0)
AsInt(v) == IF v.t = "bool" THEN (IF v.b THEN 1 ELSE 0) ELSE v.i

\* the outcome of a call: a returned value, or the exception it raised
Ok(v) == [exc |-> "none", val |-> v]
Raise(e) == [exc |-> e, val |-> PyNone]

\* -------------------------------------------------------- template handler

\* names the [a-zA-Z_]\w* group of the ENV pattern accepts
EnvNames == {"PORT", "HOST", "USE_HTTPS"}

\* the types the ENV pattern accepts after the colon
TemplateTypes == {"bool", "str", "float", "int"}

\* "ENV[name]" and "ENV[name]:type"
Env(name) == PyStr(<<"ENV", "[", name, "]">>)
EnvT(name, ty) == PyStr(<<"ENV", "[", name, "]", ":", ty>>)

\* re.fullmatch(_TemplateHandler._PATTERN, str(v))
MatchesTemplate(v) ==
    /\ v.t = "str"
    /\ Len(v.s) \in {4, 6}
    /\ v.s[1] = "ENV" /\ v.s[2] = "[" /\ v.s[3] \in EnvNames /\ v.s[4] = "]"
    /\ Len(v.s) = 6 => (v.s[5] = ":" /\ v.s[6] \in TemplateTypes)

\* decimal numerals int() parses
IntOf(tok) ==
    CASE tok = "0" -> 0
      [] tok = "2" -> 2
      [] tok = "3" -> 3
      [] tok = "8080" -> 8080
      [] tok = "70000" -> 70000
      [] OTHER -> -1

IsNumeral(tok) == tok \in {"0", "2", "3", "8080", "70000"}

\* str.lower on the words that spell a boolean
Lower(tok) ==
    CASE tok \in {"true", "True", "TRUE"} -> "true"
      [] tok \in {"false", "False", "FALSE"} -> "false"
      [] OTHER -> tok

\* _TemplateHandler._to_bool
TemplateHandler_to_bool(s) ==
    IF Len(s) = 1 /\ Lower(s[1]) \in {"true", "false"}
    THEN Ok(PyBool(Lower(s[1]) = "true"))
    ELSE Raise("InconsistentEnvVariableError")

\* _TemplateHandler._to_int
TemplateHandler_to_int(s) ==
    IF Len(s) = 1 /\ IsNumeral(s[1])
    THEN Ok(PyInt(IntOf(s[1])))
    ELSE Raise("InconsistentEnvVariableError")

\* _TemplateHandler._to_float
TemplateHandler_to_float(s) ==
    IF Len(s) = 1 /\ IsNumeral(s[1])
    THEN Ok(PyFloat(s))
    ELSE Raise("InconsistentEnvVariableError")

\* _TemplateHandler._replace_templates(template) with type=str, required=True
TemplateHandler_replace_templates(template, env) ==
    IF ~(template.t = "str" /\ \E k \in 1..Len(template.s) : template.s[k] = "ENV")
    THEN Ok(template)
    ELSE IF ~MatchesTemplate(template)
    THEN Ok(template)
    ELSE LET var == template.s[3]
             dynamic_type == IF Len(template.s) = 6 THEN template.s[6] ELSE "none"
             val == env[var]
         IN  IF val = PyNone
             THEN Raise("MissingEnvVariableError")
             ELSE CASE dynamic_type = "bool" -> TemplateHandler_to_bool(val.s)
                    [] dynamic_type = "int" -> TemplateHandler_to_int(val.s)
                    [] dynamic_type = "float" -> TemplateHandler_to_float(val.s)
                    [] OTHER -> Ok(val)

\* -------------------------------------------------------------- serializer

\* _BaseSerializer._SERIALIZABLE_TYPES
SERIALIZABLE_TYPES ==
    <<"bool", "str", "int", "float", "datetime", "timedelta", "function", "class", "enum", "SECTION">>

\* a value of a type this model does not look into (datetime, timedelta,
\* function, class, enum), kept as its tag and its text
PyOpaque(tag, toks) == [t |-> tag, i |-> 0, s |-> toks, b |-> FALSE]

\* _pythonify leaving every string as it is written in the file
BaseSerializer_pythonify_as_text(val) == Ok(val)

\* what the _pythonify of a registered class returns: the class, and the value it
\* was given (its type, then its text)
PyObject(class, arg) == [t |-> class, i |-> arg.i, s |-> <<arg.t>> \o arg.s, b |-> arg.b]

\* _pythonify reading the tag of a string before looking for the ENV template
BaseSerializer_pythonify_in_tag_first(val, types, registered) ==
    IF val.t # "str" THEN Ok(val)
    ELSE LET s == val.s
             n == Len(s)
         IN  IF n >= 3 /\ s[n - 1] = ":" /\ s[n] \in {"str", "SECTION"}
             THEN Ok(PyStr(SubSeq(s, 1, n - 2)))
             ELSE IF n >= 3 /\ s[n - 1] = ":" /\ s[n] \in types
             THEN Ok(PyOpaque(s[n], SubSeq(s, 1, n - 2)))
             ELSE Ok(val)

\* _pythonify asking the built-in tags before the registered types
BaseSerializer_pythonify_in_builtin_first(val, types, registered) ==
    IF MatchesTemplate(val) \/ val.t # "str" THEN Ok(val)
    ELSE LET s == val.s
             n == Len(s)
         IN  IF n >= 2 /\ s[n] = ":"
             THEN Raise("LoadingError")
             ELSE IF n >= 3 /\ s[n - 1] = ":" /\ s[n] \in types
             THEN LET actual_val == SubSeq(s, 1, n - 2)
                      dynamic_type == s[n]
                  IN  CASE dynamic_type \in {"SECTION", "str"} -> Ok(PyStr(actual_val))
                        [] dynamic_type = "bool" -> TemplateHandler_to_bool(actual_val)
                        [] dynamic_type = "int" -> TemplateHandler_to_int(actual_val)
                        [] dynamic_type = "float" -> TemplateHandler_to_float(actual_val)
                        [] dynamic_type \in {"datetime", "timedelta", "function", "class", "enum"} ->
                               Ok(PyOpaque(dynamic_type, actual_val))
                        [] OTHER ->
                               IF dynamic_type \in DOMAIN registered
                               THEN Ok(PyObject(registered[dynamic_type], PyStr(actual_val)))
                               ELSE Raise("LoadingError")
             ELSE Ok(val)

\* _BaseSerializer._pythonify of a scalar when _SERIALIZABLE_TYPES holds types and
\* _registered_types is registered.  TYPE_PATTERN is "^(.+):(type)?$": the text
\* before the last colon must not be empty and the type may be missing
BaseSerializer_pythonify_in(val, types, registered) ==
    IF MatchesTemplate(val) \/ val.t # "str" THEN Ok(val)
    ELSE LET s == val.s
             n == Len(s)
         IN  IF n >= 2 /\ s[n] = ":"
             THEN Raise("LoadingError")
             ELSE IF n >= 3 /\ s[n - 1] = ":" /\ s[n] \in types
             THEN LET actual_val == SubSeq(s, 1, n - 2)
                      dynamic_type == s[n]
                  IN  CASE dynamic_type = "SECTION" -> Ok(PyStr(actual_val))
                        [] dynamic_type # "SECTION" /\ dynamic_type \in DOMAIN registered ->
                               Ok(PyObject(registered[dynamic_type], PyStr(actual_val)))
                        [] dynamic_type = "bool" /\ dynamic_type \notin DOMAIN registered ->
                               TemplateHandler_to_bool(actual_val)
                        [] dynamic_type = "int" /\ dynamic_type \notin DOMAIN registered ->
                               TemplateHandler_to_int(actual_val)
                        [] dynamic_type = "float" /\ dynamic_type \notin DOMAIN registered ->
                               TemplateHandler_to_float(actual_val)
                        [] dynamic_type = "str" /\ dynamic_type \notin DOMAIN registered ->
                               Ok(PyStr(actual_val))
                        [] dynamic_type \in {"datetime", "timedelta", "function", "class", "enum"}
                               /\ dynamic_type \notin DOMAIN registered ->
                               Ok(PyOpaque(dynamic_type, actual_val))
                        [] OTHER -> Raise("LoadingError")
             ELSE Ok(val)

\* _BaseSerializer._pythonify of a scalar while no section has registered a type
BaseSerializer_pythonify(val) ==
    BaseSerializer_pythonify_in(val, {SERIALIZABLE_TYPES[j] : j \in 1..Len(SERIALIZABLE_TYPES)},
                                [id \in {} |-> "none"])

\* _pythonify of a dict: {str(k): _pythonify(v)}, or the first exception
BaseSerializer_pythonify_dict(d) ==
    LET bad == {k \in DOMAIN d : BaseSerializer_pythonify(d[k]).exc # "none"}
    IN  IF bad # {}
        THEN [exc |-> BaseSerializer_pythonify(d[CHOOSE k \in bad : TRUE]).exc, val |-> d]
        ELSE [exc |-> "none", val |-> [k \in DOMAIN d |-> BaseSerializer_pythonify(d[k]).val]]

\* -------------------------------------------------------------------- heap

\* how many RestConfig objects can be alive at once
MaxObjs == 5

ObjIds == 1..MaxObjs

\* RestConfig._PORT_KEY .. RestConfig._SSL_KEY_KEY, in the order _update reads them
FieldKeys == <<"port", "host", "use_https", "ssl_cert", "ssl_key">>
FieldKeySet == {FieldKeys[n] : n \in 1..Len(FieldKeys)}

\* RestConfig._DEFAULT_PORT
DEFAULT_PORT == 5000

\* RestConfig._DEFAULT_PORT .. RestConfig._DEFAULT_SSL_KEY
Defaults ==
    [k \in FieldKeySet |->
        CASE k = "port" -> PyInt(DEFAULT_PORT)
          [] k = "host" -> PyStr(<<"127.0.0.1">>)
          [] k = "use_https" -> PyBool(FALSE)
          [] OTHER -> PyNone]

\* {}
EmptyDict == [k \in {} |-> PyNone]

\* a RestConfig object: its five attributes _port .. _ssl_key by key, and its
\* _properties, a dict no other object holds (__init__ gets it from **properties)
FreeObj == [live |-> FALSE, attr |-> [k \in FieldKeySet |-> PyNone], properties |-> EmptyDict]

EmptyHeap == [o \in ObjIds |-> FreeObj]

\* the id a newly created object gets: the lowest one not in use
NewObjId(heap) == CHOOSE o \in ObjIds : ~heap[o].live /\ \A j \in 1..(o - 1) : heap[j].live

\* d1.update(d2) on dict values
DictUpdate(d1, d2) ==
    [k \in DOMAIN d1 \cup DOMAIN d2 |-> IF k \in DOMAIN d2 THEN d2[k] ELSE d1[k]]

\* the dict without the keys in ks (what is left once they are popped)
DictWithout(d, ks) == [k \in DOMAIN d \ ks |-> d[k]]

\* d.pop(key, default)
DictPop(d, key, default) == IF key \in DOMAIN d THEN d[key] ELSE default

\* Object ids are addresses: which one an object gets says nothing about the
\* program.  After a call the objects the four references reach (default,
\* applied, python, copy; 0 for None) are kept, numbered in that order, and the
\* others are reclaimed.
Renumber(d, a, p, c) ==
    LET na == IF a = d THEN 1 ELSE 2
        np == IF p = 0 THEN 0 ELSE IF p = d THEN 1 ELSE IF p = a THEN na ELSE na + 1
        top == IF np > na THEN np ELSE na
        nc == IF c = 0 THEN 0 ELSE IF c = d THEN 1 ELSE IF c = a THEN na
              ELSE IF c = p THEN np ELSE top + 1
    IN  <<1, na, np, nc>>

Collect(heap, d, a, p, c) ==
    LET refs == Renumber(d, a, p, c)
    IN  [heap |-> [n \in ObjIds |->
                     IF n = refs[1] THEN heap[d]
                     ELSE IF n = refs[2] THEN heap[a]
                     ELSE IF n = refs[3] THEN heap[p]
                     ELSE IF n = refs[4] THEN heap[c]
                     ELSE FreeObj],
         refs |-> refs]

\* -------------------------------------------------------------- RestConfig

\* RestConfig.__init__: a new object holding the five values and the keyword
\* arguments
RestConfig_init(heap, attr, properties) ==
    LET o == NewObjId(heap)
    IN  [heap |-> [heap EXCEPT ![o] = [live |-> TRUE, attr |-> attr, properties |-> properties]],
         ref |-> o]

\* RestConfig.__copy__ returning self
RestConfig_copy_self(heap, self) == [heap |-> heap, ref |-> self]

\* RestConfig.__copy__
RestConfig_copy(heap, self) ==
    RestConfig_init(heap, heap[self].attr, heap[self].properties)

\* RestConfig._clean
RestConfig_clean(heap, self) ==
    [heap EXCEPT ![self].attr = Defaults, ![self].properties = EmptyDict]

\* RestConfig.port, .host, .use_https, .ssl_cert, .ssl_key (the property getters)
RestConfig_get(heap, self, key, env) ==
    TemplateHandler_replace_templates(heap[self].attr[key], env)

\* the property setters
RestConfig_set(heap, self, key, value) ==
    [heap EXCEPT ![self].attr[key] = value]

\* RestConfig.ssl_context giving the pair whatever use_https is
RestConfig_ssl_context_always(heap, self, env) ==
    [exc |-> "none", pair |-> TRUE,
     cert |-> RestConfig_get(heap, self, "ssl_cert", env).val,
     key |-> RestConfig_get(heap, self, "ssl_key", env).val]

\* RestConfig.ssl_context: the pair (ssl_cert, ssl_key) when use_https is truthy,
\* None otherwise, or the exception of the getter that raised first
RestConfig_ssl_context(heap, self, env) ==
    LET u == RestConfig_get(heap, self, "use_https", env)
        c == RestConfig_get(heap, self, "ssl_cert", env)
        k == RestConfig_get(heap, self, "ssl_key", env)
        none == [exc |-> "none", pair |-> FALSE, cert |-> PyNone, key |-> PyNone]
    IN  IF u.exc # "none" THEN [none EXCEPT !.exc = u.exc]
        ELSE IF ~Truthy(u.val) THEN none
        ELSE IF c.exc # "none" THEN [none EXCEPT !.exc = c.exc]
        ELSE IF k.exc # "none" THEN [none EXCEPT !.exc = k.exc]
        ELSE [exc |-> "none", pair |-> TRUE, cert |-> c.val, key |-> k.val]

\* the assignments of _update from the n-th on: each reads the property (resolving
\* its template) before it pops the key, and an exception ends the call there
RECURSIVE UpdateFrom(_, _, _, _, _)
UpdateFrom(heap, self, config_as_dict, env, n) ==
    IF n > Len(FieldKeys) THEN [heap |-> heap, exc |-> "none"]
    ELSE LET key == FieldKeys[n]
             current == RestConfig_get(heap, self, key, env)
         IN  IF current.exc # "none" THEN [heap |-> heap, exc |-> current.exc]
             ELSE UpdateFrom(RestConfig_set(heap, self, key, DictPop(config_as_dict, key, current.val)),
                             self, config_as_dict, env, n + 1)

\* RestConfig._update updating the properties before the five keys are popped
RestConfig_update_before_pop(heap, self, config_as_dict, env) ==
    LET r == UpdateFrom(heap, self, config_as_dict, env, 1)
    IN  IF r.exc # "none" THEN r
        ELSE [heap |-> [r.heap EXCEPT ![self].properties = DictUpdate(@, config_as_dict)],
              exc |-> "none"]

\* RestConfig._update
RestConfig_update(heap, self, config_as_dict, env) ==
    LET r == UpdateFrom(heap, self, config_as_dict, env, 1)
    IN  IF r.exc # "none" THEN r
        ELSE [heap |-> [r.heap EXCEPT ![self].properties =
                            DictUpdate(@, DictWithout(config_as_dict, FieldKeySet))],
              exc |-> "none"]

\* RestConfig._to_dict keeping the None fields
RestConfig_to_dict_keep_none(heap, self) ==
    DictUpdate(heap[self].attr, heap[self].properties)

\* RestConfig._to_dict
RestConfig_to_dict(heap, self) ==
    LET attr == heap[self].attr
        as_dict == [k \in {x \in FieldKeySet : attr[x] # PyNone} |-> attr[k]]
    IN  DictUpdate(as_dict, heap[self].properties)

\* RestConfig._from_dict popping each key with the default of its field
RestConfig_from_dict_defaults(heap, as_dict) ==
    RestConfig_init(heap, [k \in FieldKeySet |-> DictPop(as_dict, k, Defaults[k])],
                    DictWithout(as_dict, FieldKeySet))

\* RestConfig._from_dict
RestConfig_from_dict(heap, as_dict) ==
    RestConfig_init(heap, [k \in FieldKeySet |-> DictPop(as_dict, k, PyNone)],
                    DictWithout(as_dict, FieldKeySet))

\* RestConfig.default_config
RestConfig_default_config(heap) == RestConfig_init(heap, Defaults, EmptyDict)

\* ------------------------------------------------------------------ Config

VARIABLES
    objs,             \* the heap: the RestConfig objects, by id
    default_rest,     \* Config._default_config._unique_sections["REST"]
    python_rest,      \* Config._python_config._unique_sections.get("REST"), 0 when absent
    applied_rest,     \* Config._applied_config._unique_sections["REST"], which Config.rest names
    rest_config_copy, \* the object a caller got from Config.rest.__copy__(), 0 before
    environ,          \* os.environ: a string, or None for a variable that is not set
    collector,        \* Config._collector
    raised,           \* the exception the last call raised, "none" when it returned
    last_call,        \* the call made last ("import" before any)
    rest_before,      \* the five values Config.rest held when that call was made
    registry,         \* _BaseSerializer._section_class, _registered_types, _SERIALIZABLE_TYPES
    data,             \* the DataFrame the caller of the data accessor holds
    request,          \* the call made last on the serializer, the factory or the GUI
    response          \* what that call returned, raised or assigned

\* the state of the REST configuration
rest_vars == <<objs, default_rest, python_rest, applied_rest, rest_config_copy,
               environ, collector, raised, last_call, rest_before>>

\* the state of the serializer classes and of the callers of the GUI
lib_vars == <<registry, data, request, response>>

vars == <<rest_vars, lib_vars>>

\* no call made yet on the serializer, the factory or the GUI
NoCall == [op |-> "none"]

\* a row of a DataFrame: its index label and its cells, by column
Row(index, name, value) ==
    [index |-> index, cells |-> [c \in {"name", "value"} |-> IF c = "name" THEN name ELSE value]]

\* the small_dataframe fixture: {"name": ["A", "B", "C"], "value": [1, 2, 3]}
SmallDataframe ==
    <<Row(0, PyStr(<<"A">>), PyInt(1)), Row(1, PyStr(<<"B">>), PyInt(2)), Row(2, PyStr(<<"C">>), PyInt(3))>>

\* the serializer once the REST section is injected: _section_class holds the
\* global node, _register(default section) has stored its class, and no type is
\* registered
InitRegistry ==
    [section_class |-> [n \in {"TAIPY", "REST"} |->
                           IF n = "TAIPY" THEN "GlobalAppConfig" ELSE "RestConfig"],
     registered_types |-> [n \in {} |-> "none"],
     serializable_types |-> SERIALIZABLE_TYPES]

InitLib ==
    /\ registry = InitRegistry
    /\ data = SmallDataframe
    /\ request = NoCall
    /\ response = NoCall

\* the record of the call being made
Called(name) == last_call' = name /\ rest_before' = objs[applied_rest].attr

\* IssueCollector()
IssueCollector == [errors |-> <<>>, warnings |-> <<>>, infos |-> <<>>]

\* _Config._update for the REST section: the section present is updated in place
\* from the other configuration's _to_dict()
Config_update_section(heap, self, other, env) ==
    IF other = 0 THEN [heap |-> heap, exc |-> "none"]
    ELSE RestConfig_update(heap, self, RestConfig_to_dict(heap, other), env)

\* Config.__compile_configs: the applied section is cleaned, then updated from the
\* default configuration and from the Python configuration
Config_compile_configs(heap, default, python, applied, env) ==
    LET d == Config_update_section(RestConfig_clean(heap, applied), applied, default, env)
    IN  IF d.exc # "none" THEN d
        ELSE Config_update_section(d.heap, applied, python, env)

\* Config._register(section): a REST section already registered is updated from
\* section._to_dict(), otherwise the section itself is stored; then the
\* configurations are compiled
Config_register(heap, default, python, applied, attr, properties, env) ==
    LET made == RestConfig_init(heap, attr, properties)
        section == made.ref
    IN  IF python = 0
        THEN LET c == Config_compile_configs(made.heap, default, section, applied, env)
             IN  [heap |-> c.heap, python |-> section, exc |-> c.exc]
        ELSE LET u == RestConfig_update(made.heap, python, RestConfig_to_dict(made.heap, section), env)
             IN  IF u.exc # "none"
                 THEN [heap |-> u.heap, python |-> python, exc |-> u.exc]
                 ELSE LET c == Config_compile_configs(u.heap, default, python, applied, env)
                      IN  [heap |-> c.heap, python |-> python, exc |-> c.exc]

\* the state once taipy.rest.config is imported: _inject_section registers
\* RestConfig.default_config() as the default section and the applied
\* configuration gets a copy of it
Init ==
    LET d == RestConfig_default_config(EmptyHeap)
        a == RestConfig_copy(d.heap, d.ref)
    IN  /\ objs = a.heap
        /\ default_rest = d.ref
        /\ applied_rest = a.ref
        /\ python_rest = 0
        /\ rest_config_copy = 0
        /\ environ = [n \in EnvNames |-> PyNone]
        /\ collector = IssueCollector
        /\ raised = "none"
        /\ last_call = "import"
        /\ rest_before = Defaults
        /\ InitLib

\* the heap and the references after a call that leaves the Python section at
\* python and the copy at copy
Heap(heap, python, copy) ==
    LET c == Collect(heap, default_rest, applied_rest, python, copy)
    IN  /\ objs' = c.heap
        /\ default_rest' = c.refs[1]
        /\ applied_rest' = c.refs[2]
        /\ python_rest' = c.refs[3]
        /\ rest_config_copy' = c.refs[4]

\* Config.configure_rest(port, host, use_https, ssl_cert, ssl_key, **properties)
ConfigureRest(port, host, use_https, ssl_cert, ssl_key, properties) ==
    LET attr == [k \in FieldKeySet |->
                    CASE k = "port" -> port
                      [] k = "host" -> host
                      [] k = "use_https" -> use_https
                      [] k = "ssl_cert" -> ssl_cert
                      [] OTHER -> ssl_key]
        r == Config_register(objs, default_rest, python_rest, applied_rest, attr, properties, environ)
    IN  /\ Heap(r.heap, r.python, rest_config_copy)
        /\ raised' = r.exc
        /\ Called("configure_rest")
        /\ UNCHANGED <<environ, collector, lib_vars>>

\* Config.rest.<key> = value
SetAttr(key, value) ==
    /\ objs' = RestConfig_set(objs, applied_rest, key, value)
    /\ raised' = "none"
    /\ Called("set")
    /\ UNCHANGED <<default_rest, python_rest, applied_rest, rest_config_copy, environ, collector, lib_vars>>

\* Config.load(filename): the file is read and converted, its [REST] table (when it
\* has one) becomes the REST section of the Python configuration, which replaces
\* the previous one, and the configurations are compiled
Load(has_rest, table) ==
    LET p == BaseSerializer_pythonify_dict(table)
    IN  IF p.exc # "none"
        THEN /\ raised' = p.exc
             /\ Called("load")
             /\ UNCHANGED <<objs, default_rest, python_rest, applied_rest,
                            rest_config_copy, environ, collector, lib_vars>>
        ELSE LET made == IF has_rest THEN RestConfig_from_dict(objs, p.val)
                         ELSE [heap |-> objs, ref |-> 0]
                 c == Config_compile_configs(made.heap, default_rest, made.ref, applied_rest, environ)
             IN  /\ Heap(c.heap, made.ref, rest_config_copy)
                 /\ raised' = c.exc
                 /\ Called("load")
                 /\ UNCHANGED <<environ, collector, lib_vars>>

\* os.environ[name] = value
Putenv(name, value) ==
    /\ environ' = [environ EXCEPT ![name] = value]
    /\ UNCHANGED <<objs, default_rest, python_rest, applied_rest, rest_config_copy,
                   collector, raised, last_call, rest_before, lib_vars>>

\* del os.environ[name]
Unsetenv(name) ==
    /\ environ[name] # PyNone
    /\ environ' = [environ EXCEPT ![name] = PyNone]
    /\ UNCHANGED <<objs, default_rest, python_rest, applied_rest, rest_config_copy,
                   collector, raised, last_call, rest_before, lib_vars>>

\* ----------------------------------------------------------------- checker

\* _ConfigChecker._error: the collector with one more error
Error(coll, field, value, message) ==
    [coll EXCEPT !.errors = Append(@, [field |-> field, value |-> value, message |-> message])]

\* _RestConfigChecker._check_port with "<" for the upper limit
RestConfigChecker_check_port_below_max(coll, port) ==
    IF ~IsInstanceInt(port) \/ ~(1 <= AsInt(port) /\ AsInt(port) < 65535)
    THEN Error(coll, "port", port, "The port of the RestConfig must be an integer between 1 and 65535.")
    ELSE coll

\* _RestConfigChecker._check_port, given what rest_config.port returns
RestConfigChecker_check_port(coll, port) ==
    IF ~IsInstanceInt(port) \/ ~(1 <= AsInt(port) /\ AsInt(port) <= 65535)
    THEN Error(coll, "port", port, "The port of the RestConfig must be an integer between 1 and 65535.")
    ELSE coll

\* _RestConfigChecker._check_host accepting the empty string
RestConfigChecker_check_host_any_str(coll, host) ==
    IF ~IsInstanceStr(host)
    THEN Error(coll, "host", host, "The host of the RestConfig must be a non-empty string.")
    ELSE coll

\* _RestConfigChecker._check_host, given what rest_config.host returns
RestConfigChecker_check_host(coll, host) ==
    IF ~IsInstanceStr(host) \/ ~Truthy(host)
    THEN Error(coll, "host", host, "The host of the RestConfig must be a non-empty string.")
    ELSE coll

\* the messages of _check_https_settings
MustBeSet(field) ==
    IF field = "ssl_cert" THEN "When HTTPS is enabled in the RestConfig ssl_cert must be set."
    ELSE "When HTTPS is enabled in the RestConfig ssl_key must be set."

MustBeString(field) ==
    IF field = "ssl_cert" THEN "The ssl_cert of the RestConfig must be valid string."
    ELSE "The ssl_key of the RestConfig must be valid string."

\* the two branches of _check_https_settings for one of ssl_cert and ssl_key, with
\* "if" in place of "elif"
RestConfigChecker_check_ssl_no_elif(coll, field, value) ==
    LET c1 == IF ~Truthy(value) THEN Error(coll, field, value, MustBeSet(field)) ELSE coll
    IN  IF ~IsInstanceStr(value) THEN Error(c1, field, value, MustBeString(field)) ELSE c1

\* the two branches of _check_https_settings for one of ssl_cert and ssl_key
RestConfigChecker_check_ssl(coll, field, value) ==
    IF ~Truthy(value) THEN Error(coll, field, value, MustBeSet(field))
    ELSE IF ~IsInstanceStr(value) THEN Error(coll, field, value, MustBeString(field))
    ELSE coll

\* _check_https_settings checking the key before the certificate
RestConfigChecker_check_https_settings_key_first(coll, use_https, ssl_cert, ssl_key) ==
    IF Truthy(use_https)
    THEN RestConfigChecker_check_ssl(RestConfigChecker_check_ssl(coll, "ssl_key", ssl_key),
                                     "ssl_cert", ssl_cert)
    ELSE coll

\* _RestConfigChecker._check_https_settings, given what the getters return
RestConfigChecker_check_https_settings(coll, use_https, ssl_cert, ssl_key) ==
    IF Truthy(use_https)
    THEN RestConfigChecker_check_ssl(RestConfigChecker_check_ssl(coll, "ssl_cert", ssl_cert),
                                     "ssl_key", ssl_key)
    ELSE coll

\* _RestConfigChecker._check on the REST section of the configuration: the three
\* checks in turn, each reading the properties it checks; a getter that raises
\* ends the run with the errors recorded so far
RestConfigChecker_check(heap, rest_config, env, coll) ==
    LET port == RestConfig_get(heap, rest_config, "port", env)
        host == RestConfig_get(heap, rest_config, "host", env)
        use_https == RestConfig_get(heap, rest_config, "use_https", env)
        ssl_cert == RestConfig_get(heap, rest_config, "ssl_cert", env)
        ssl_key == RestConfig_get(heap, rest_config, "ssl_key", env)
        c1 == RestConfigChecker_check_port(coll, port.val)
        c2 == RestConfigChecker_check_host(c1, host.val)
    IN  IF port.exc # "none" THEN [exc |-> port.exc, collector |-> coll]
        ELSE IF host.exc # "none" THEN [exc |-> host.exc, collector |-> c1]
        ELSE IF use_https.exc # "none" THEN [exc |-> use_https.exc, collector |-> c2]
        ELSE IF ~Truthy(use_https.val) THEN [exc |-> "none", collector |-> c2]
        ELSE IF ssl_cert.exc # "none" THEN [exc |-> ssl_cert.exc, collector |-> c2]
        ELSE IF ssl_key.exc # "none"
        THEN [exc |-> ssl_key.exc,
              collector |-> RestConfigChecker_check_ssl(c2, "ssl_cert", ssl_cert.val)]
        ELSE [exc |-> "none",
              collector |-> RestConfigChecker_check_https_settings(c2, use_https.val, ssl_cert.val, ssl_key.val)]

\* Config.check(): the checker runs on the applied configuration with a new
\* collector, which becomes Config._collector; errors end the call with SystemExit
Check ==
    LET r == RestConfigChecker_check(objs, applied_rest, environ, IssueCollector)
    IN  /\ collector' = IF r.exc = "none" THEN r.collector ELSE collector
        /\ raised' = IF r.exc # "none" THEN r.exc
                     ELSE IF r.collector.errors # <<>> THEN "SystemExit" ELSE "none"
        /\ Called("check")
        /\ UNCHANGED <<objs, default_rest, python_rest, applied_rest, rest_config_copy, environ, lib_vars>>

\* -------------------------------------------------------------------- copy

\* rest_config_copy = Config.rest.__copy__()
Copy ==
    LET c == RestConfig_copy(objs, applied_rest)
    IN  /\ Heap(c.heap, python_rest, c.ref)
        /\ raised' = "none"
        /\ Called("copy")
        /\ UNCHANGED <<environ, collector, lib_vars>>

\* rest_config_copy.<key> = value
SetAttrCopy(key, value) ==
    /\ rest_config_copy # 0
    /\ objs' = RestConfig_set(objs, rest_config_copy, key, value)
    /\ raised' = "none"
    /\ Called("set_copy")
    /\ UNCHANGED <<default_rest, python_rest, applied_rest, rest_config_copy, environ, collector, lib_vars>>

\* obj._properties[key] = value
SetProperty(obj, key, value, name) ==
    /\ obj # 0
    /\ objs' = [objs EXCEPT ![obj].properties = DictUpdate(@, [k \in {key} |-> value])]
    /\ raised' = "none"
    /\ Called(name)
    /\ UNCHANGED <<default_rest, python_rest, applied_rest, rest_config_copy, environ, collector, lib_vars>>

\* del obj._properties[key]
DelProperty(obj, key, name) ==
    /\ obj # 0
    /\ key \in DOMAIN objs[obj].properties
    /\ objs' = [objs EXCEPT ![obj].properties = DictWithout(@, {key})]
    /\ raised' = "none"
    /\ Called(name)
    /\ UNCHANGED <<default_rest, python_rest, applied_rest, rest_config_copy, environ, collector, lib_vars>>

\* ----------------------------------------------------- the configuration API

\* what the calls of Spec pass for each parameter
ArgValues(key) ==
    CASE key = "port" -> {PyNone, PyInt(8080)}
      [] key = "host" -> {PyNone, PyStr(<<"0.0.0.0">>)}
      [] key = "use_https" -> {PyNone, PyBool(TRUE), EnvT("USE_HTTPS", "bool")}
      [] key = "ssl_cert" -> {PyNone, PyStr(<<"cert.pem">>)}
      [] OTHER -> {PyNone, PyStr(<<"key.pem">>)}

\* what a [REST] table of a TOML file holds for each key
FileValue(key) ==
    CASE key = "port" -> PyInt(2)
      [] key = "host" -> PyStr(<<"192.168.0.87">>)
      [] key = "use_https" -> PyStr(<<"true", ":", "bool">>)
      [] key = "ssl_cert" -> PyStr(<<"cert.pem">>)
      [] OTHER -> PyStr(<<"key.pem">>)

\* the files loaded: without a [REST] table, with one holding some of the keys,
\* and with one that cannot be converted
Files ==
    {[has_rest |-> FALSE, table |-> EmptyDict]}
        \cup {[has_rest |-> TRUE, table |-> [k \in ks |-> FileValue(k)]] :
                ks \in {{}, {"port"}, {"host", "use_https"}, {"ssl_cert", "ssl_key"}, FieldKeySet}}
        \cup {[has_rest |-> TRUE, table |-> [k \in {"use_https"} |-> PyStr(<<"yes", ":", "bool">>)]]}

\* what the environment variables are set to
EnvValue(name) ==
    CASE name = "PORT" -> PyStr(<<"3">>)
      [] name = "HOST" -> PyStr(<<"1.2.3.4">>)
      [] OTHER -> PyStr(<<"true">>)

\* the variables the templates of Spec name
SpecEnvNames == {"USE_HTTPS"}

Configure ==
    \E port \in ArgValues("port"), host \in ArgValues("host"),
       use_https \in ArgValues("use_https"), ssl_cert \in ArgValues("ssl_cert"),
       ssl_key \in ArgValues("ssl_key") :
        ConfigureRest(port, host, use_https, ssl_cert, ssl_key, EmptyDict)

LoadFile == \E file \in Files : Load(file.has_rest, file.table)

SetEnv == \E name \in SpecEnvNames : Putenv(name, EnvValue(name))

DelEnv == \E name \in SpecEnvNames : Unsetenv(name)

Next == Configure \/ LoadFile \/ SetEnv \/ DelEnv

\* configure_rest and Config.load in any order, while the environment changes
Spec == Init /\ [][Next]_vars

\* --------------------------------------------------- checking configurations

\* what the one configure_rest call of SpecCheck passes for each parameter
CheckValues(key) ==
    CASE key = "port" -> {PyNone, PyInt(1), PyInt(65535), PyInt(0), PyInt(65536), PyInt(70000),
                          PyStr(<<"8080">>), PyBool(TRUE), PyBool(FALSE)}
      [] key = "host" -> {PyNone, PyStr(<<"0.0.0.0">>), PyStr(<<>>), PyInt(123)}
      [] key = "use_https" -> {PyNone, PyBool(TRUE), PyBool(FALSE)}
      [] key = "ssl_cert" -> {PyNone, PyStr(<<"cert.pem">>), PyStr(<<>>), PyInt(123)}
      [] OTHER -> {PyNone, PyStr(<<"key.pem">>), PyInt(456)}

ConfigureOnce ==
    /\ python_rest = 0
    /\ \E port \in CheckValues("port"), host \in CheckValues("host"),
          use_https \in CheckValues("use_https"), ssl_cert \in CheckValues("ssl_cert"),
          ssl_key \in CheckValues("ssl_key") :
           ConfigureRest(port, host, use_https, ssl_cert, ssl_key, EmptyDict)

\* Config.rest.port = None, Config.rest.host = None
SetNone == \E key \in {"port", "host"} : SetAttr(key, PyNone)

NextCheck == ConfigureOnce \/ SetNone \/ Check

\* one configure_rest call, assignments of None, and Config.check()
SpecCheck == Init /\ [][NextCheck]_vars

\* ----------------------------------------------------------- copying Config.rest

\* the value the setters of SpecCopy assign to each field
Changed(key) ==
    CASE key = "port" -> PyInt(9090)
      [] key = "use_https" -> PyBool(FALSE)
      [] OTHER -> PyStr(<<"changed">>)

ConfigureForCopy ==
    /\ python_rest = 0
    /\ ConfigureRest(PyInt(8080), PyStr(<<"0.0.0.0">>), PyBool(TRUE), PyStr(<<"cert.pem">>),
                     PyStr(<<"key.pem">>), [k \in {"extra"} |-> PyStr(<<"x">>)])

SetOnCopy == \E key \in FieldKeySet : SetAttrCopy(key, Changed(key))

SetOnOriginal == \E key \in FieldKeySet : SetAttr(key, Changed(key))

EditCopyProperties ==
    \/ SetProperty(rest_config_copy, "extra", PyStr(<<"y">>), "set_copy")
    \/ DelProperty(rest_config_copy, "extra", "set_copy")

EditOriginalProperties ==
    \/ SetProperty(applied_rest, "extra", PyStr(<<"y">>), "set")
    \/ DelProperty(applied_rest, "extra", "set")

NextCopy ==
    \/ ConfigureForCopy
    \/ Copy
    \/ SetOnCopy
    \/ SetOnOriginal
    \/ EditCopyProperties
    \/ EditOriginalProperties

\* Config.rest is copied, then the copy and the original are changed
SpecCopy == Init /\ [][NextCopy]_vars

\* ------------------------------------------------------------------ claims

\* what reading the five properties of Config.rest gives
ReadRest(key) == RestConfig_get(objs, applied_rest, key, environ)

\* the Python configuration holds no value for the REST section
Unconfigured ==
    python_rest = 0 \/ \A k \in FieldKeySet : objs[python_rest].attr[k] = PyNone

\* C1: while configure_rest was never called, and after configure_rest() without
\* arguments on an unconfigured configuration, Config.rest reads port 5000, host
\* "127.0.0.1", use_https False, ssl_cert None and ssl_key None.
C1_Defaults ==
    Unconfigured =>
        /\ ReadRest("port") = Ok(PyInt(5000))
        /\ ReadRest("host") = Ok(PyStr(<<"127.0.0.1">>))
        /\ ReadRest("use_https") = Ok(PyBool(FALSE))
        /\ ReadRest("ssl_cert") = Ok(PyNone)
        /\ ReadRest("ssl_key") = Ok(PyNone)

\* configure_rest() without arguments has just returned on an unconfigured
\* configuration
C1_Witness ==
    /\ last_call = "configure_rest"
    /\ raised = "none"
    /\ python_rest # 0
    /\ Unconfigured

\* the arguments configure_rest takes in Spec, as the five values
ArgRecords ==
    {[k \in FieldKeySet |->
        CASE k = "port" -> port
          [] k = "host" -> host
          [] k = "use_https" -> use_https
          [] k = "ssl_cert" -> ssl_cert
          [] OTHER -> ssl_key] :
     port \in ArgValues("port"), host \in ArgValues("host"),
     use_https \in ArgValues("use_https"), ssl_cert \in ArgValues("ssl_cert"),
     ssl_key \in ArgValues("ssl_key")}

\* C2: from any state a sequence of configure_rest calls leads to, one more
\* configure_rest call sets the fields it is passed and leaves every other field of
\* Config.rest reading as it did before the call.
C2_PartialConfigure ==
    \A attr \in ArgRecords :
        LET r == Config_register(objs, default_rest, python_rest, applied_rest,
                                 attr, EmptyDict, environ)
        IN  /\ r.exc = "none"
            /\ \A k \in FieldKeySet :
                   IF attr[k] # PyNone
                   THEN r.heap[applied_rest].attr[k] = attr[k]
                   ELSE RestConfig_get(r.heap, applied_rest, k, environ) = ReadRest(k)

\* what the fields of the [REST] table of Files read as
FileExpected(key) ==
    CASE key = "port" -> PyInt(2)
      [] key = "host" -> PyStr(<<"192.168.0.87">>)
      [] key = "use_https" -> PyBool(TRUE)
      [] key = "ssl_cert" -> PyStr(<<"cert.pem">>)
      [] OTHER -> PyStr(<<"key.pem">>)

\* C3: after Config.load of a file with a [REST] table, every field the table holds
\* reads with the file's value whatever configure_rest had set: the integer 2 as
\* 2, the string "true:bool" as True.
C3_FileOverrides ==
    (last_call = "load" /\ raised = "none" /\ python_rest # 0) =>
        \A k \in FieldKeySet :
            objs[python_rest].attr[k] # PyNone => ReadRest(k) = Ok(FileExpected(k))

\* a file holding the five fields was loaded when configure_rest had set the port
\* to 8080 and use_https to True or to a template
C3_Witness ==
    /\ last_call = "load"
    /\ raised = "none"
    /\ python_rest # 0
    /\ \A k \in FieldKeySet : objs[python_rest].attr[k] # PyNone
    /\ rest_before["port"] = PyInt(8080)
    /\ rest_before["host"] = PyStr(<<"0.0.0.0">>)
    /\ ReadRest("port") = Ok(PyInt(2))
    /\ ReadRest("use_https") = Ok(PyBool(TRUE))

\* C4: configure_rest given a template never raises: the template is resolved
\* when the field is read.
C4_ConfigureNeverRaises ==
    last_call = "configure_rest" => raised = "none"

\* C5: Config.rest.__copy__() gives another object with the same five fields and
\* the same properties; what is assigned to a field of the copy or added to or
\* removed from its properties leaves the original as it was, and what is done to
\* the original leaves the copy as it was.
C5_CopyIndependent ==
    [][/\ last_call' = "copy" =>
            /\ rest_config_copy' # applied_rest'
            /\ objs'[rest_config_copy'].attr = objs[applied_rest].attr
            /\ objs'[rest_config_copy'].properties = objs[applied_rest].properties
            /\ objs'[applied_rest'] = objs[applied_rest]
       /\ last_call' = "set_copy" => objs'[applied_rest'] = objs[applied_rest]
       /\ (last_call' = "set" /\ rest_config_copy # 0) =>
            objs'[rest_config_copy'] = objs[rest_config_copy]]_vars

\* the port of the copy was changed and its property removed while the original
\* keeps both
C5_Witness ==
    /\ last_call = "set_copy"
    /\ rest_config_copy # 0
    /\ objs[rest_config_copy].attr["port"] = PyInt(9090)
    /\ objs[applied_rest].attr["port"] = PyInt(8080)
    /\ "extra" \notin DOMAIN objs[rest_config_copy].properties
    /\ "extra" \in DOMAIN objs[applied_rest].properties

\* the value a field of Config.rest holds
Value(key) == objs[applied_rest].attr[key]

\* how many errors the collector holds on a field
ErrorsOn(field) ==
    Cardinality({n \in 1..Len(collector.errors) : collector.errors[n].field = field})

\* Config.check() has just run on the configuration as it is
Checked == last_call = "check"

IsInteger(v) == v.t = "int"

IsString(v) == v.t = "str"

NonEmptyString(v) == IsString(v) /\ v.s # <<>>

\* C6: the checker records nothing for the default configuration and for every
\* configuration with an integer port in 1..65535, a non-empty string as host, and
\* use_https False or non-empty strings as ssl_cert and ssl_key; it never records a
\* warning or an info.
C6_ValidConfigNoIssue ==
    /\ collector.warnings = <<>>
    /\ collector.infos = <<>>
    /\ (/\ Checked
        /\ IsInteger(Value("port")) /\ Value("port").i \in 1..65535
        /\ NonEmptyString(Value("host"))
        /\ \/ Value("use_https") = PyBool(FALSE)
           \/ NonEmptyString(Value("ssl_cert")) /\ NonEmptyString(Value("ssl_key")))
       => (collector = IssueCollector /\ raised = "none")

\* the check of a configuration with port 65535, HTTPS and both files found nothing
C6_Witness ==
    /\ Checked
    /\ Value("port") = PyInt(65535)
    /\ Value("host") = PyStr(<<"0.0.0.0">>)
    /\ Value("use_https") = PyBool(TRUE)
    /\ Value("ssl_cert") = PyStr(<<"cert.pem">>)
    /\ Value("ssl_key") = PyStr(<<"key.pem">>)
    /\ collector = IssueCollector

\* C7: the checker records one error on "port" exactly when the port is not an
\* integer between 1 and 65535; a boolean is not an integer.
C7_PortErrorIff ==
    Checked =>
        /\ ErrorsOn("port") \in {0, 1}
        /\ ErrorsOn("port") = 1 <=>
              ~(IsInteger(Value("port")) /\ Value("port").i \in 1..65535)

\* C8: the checker records one error on "host" exactly when the host is not a
\* non-empty string.
C8_HostErrorIff ==
    Checked =>
        /\ ErrorsOn("host") \in {0, 1}
        /\ ErrorsOn("host") = 1 <=> ~NonEmptyString(Value("host"))

\* the check of a configuration whose host is the empty string recorded the error
C8_Witness ==
    /\ Checked
    /\ Value("host") = PyStr(<<>>)
    /\ ErrorsOn("host") = 1
    /\ raised = "SystemExit"

\* ssl_cert or ssl_key is not set (None or empty) or is not a string
InvalidSsl(v) == v = PyNone \/ ~NonEmptyString(v)

\* C9: with use_https True the checker records one error on each of ssl_cert and
\* ssl_key that is not set or not a string and none on the other; with use_https
\* False it records none on either.
C9_HttpsErrors ==
    Checked =>
        \A f \in {"ssl_cert", "ssl_key"} :
            ErrorsOn(f) = IF Value("use_https") = PyBool(TRUE) /\ InvalidSsl(Value(f))
                          THEN 1 ELSE 0

\* with HTTPS on, an integer as certificate and no key gave one error on each
C9_Witness ==
    /\ Checked
    /\ Value("use_https") = PyBool(TRUE)
    /\ Value("ssl_cert") = PyInt(123)
    /\ Value("ssl_key") = PyNone
    /\ ErrorsOn("ssl_cert") = 1
    /\ ErrorsOn("ssl_key") = 1

\* the place of a field in the order of the checks
CheckOrder(field) ==
    CASE field = "port" -> 1
      [] field = "host" -> 2
      [] field = "ssl_cert" -> 3
      [] OTHER -> 4

\* C10: the errors of one run are in the order port, host, ssl_cert, ssl_key, and
\* an error of an earlier check does not keep a later check from recording its own.
C10_ErrorOrder ==
    Checked =>
        /\ \A m, n \in 1..Len(collector.errors) :
               m < n => CheckOrder(collector.errors[m].field) < CheckOrder(collector.errors[n].field)
        /\ ~NonEmptyString(Value("host")) => ErrorsOn("host") = 1
        /\ \A f \in {"ssl_cert", "ssl_key"} :
               (Value("use_https") = PyBool(TRUE) /\ InvalidSsl(Value(f))) => ErrorsOn(f) = 1

\* a check recorded the four errors
C10_Witness ==
    /\ Checked
    /\ Len(collector.errors) = 4
    /\ collector.errors[1].field = "port"
    /\ collector.errors[4].field = "ssl_key"

\* C11: Config.rest.ssl_context is the pair (ssl_cert, ssl_key) whenever use_https
\* is True and None whenever use_https is False, after configure_rest and after
\* any assignment to the fields.
C11_SslContext ==
    LET context == RestConfig_ssl_context(objs, applied_rest, environ)
    IN  /\ context.exc = "none"
        /\ Value("use_https") = PyBool(TRUE) =>
              /\ context.pair
              /\ context.cert = Value("ssl_cert")
              /\ context.key = Value("ssl_key")
        /\ Value("use_https") = PyBool(FALSE) =>
              context = [exc |-> "none", pair |-> FALSE, cert |-> PyNone, key |-> PyNone]

\* HTTPS was configured with both files and then turned off by the setter: the
\* context is None although ssl_cert and ssl_key are still set
C11_Witness ==
    /\ last_call = "set"
    /\ rest_before["use_https"] = PyBool(TRUE)
    /\ Value("use_https") = PyBool(FALSE)
    /\ Value("ssl_cert") = PyStr(<<"cert.pem">>)
    /\ Value("ssl_key") = PyStr(<<"key.pem">>)
    /\ ~RestConfig_ssl_context(objs, applied_rest, environ).pair

\* ------------------------------------------------------- serializer calls

\* str(n) of the integers IntOf parses
StrOf(n) ==
    CASE n = 0 -> "0"
      [] n = 2 -> "2"
      [] n = 3 -> "3"
      [] n = 8080 -> "8080"
      [] n = 70000 -> "70000"
      [] OTHER -> "?"

\* _BaseSerializer._stringify of None, a bool, an int, a float, a value with a tag
\* of its own, or a string: the tests are made in this order
BaseSerializer_stringify(v) ==
    CASE v.t = "NoneType" -> v
      [] v.t = "bool" -> PyStr(<<IF v.b THEN "True" ELSE "False", ":", "bool">>)
      [] v.t = "int" -> PyStr(<<StrOf(v.i), ":", "int">>)
      [] v.t = "float" -> PyStr(v.s \o <<":", "float">>)
      [] v.t \in {"datetime", "timedelta", "function", "class", "enum"} -> PyStr(v.s \o <<":", v.t>>)
      [] OTHER -> v

\* how many items the lists and dicts given to the serializer hold at most
MaxItems == 2

\* a scalar, a list of scalars, a dict from strings to scalars (keys and items in
\* insertion order)
Scalar(v) == [kind |-> "scalar", v |-> v, keys |-> <<>>, items |-> <<>>]
ListOf(items) == [kind |-> "list", v |-> PyNone, keys |-> <<>>, items |-> items]
DictOf(keys, items) == [kind |-> "dict", v |-> PyNone, keys |-> keys, items |-> items]

\* _stringify of a scalar, of a list ([_stringify(val) ...]) and of a dict
\* ({str(key): _stringify(val)})
BaseSerializer_stringify_value(tree) ==
    [tree EXCEPT !.v = BaseSerializer_stringify(@),
                 !.items = [n \in 1..Len(@) |-> BaseSerializer_stringify(@[n])]]

\* _pythonify of a scalar, of a list and of a dict in the state reg of the
\* serializer; a dict whose only key names a registered type is handed to that
\* type's _pythonify; the first exception ends the call
BaseSerializer_pythonify_value(tree, reg) ==
    LET types == {reg.serializable_types[j] : j \in 1..Len(reg.serializable_types)}
        registered == reg.registered_types
        results == [n \in 1..Len(tree.items) |->
                       BaseSerializer_pythonify_in(tree.items[n], types, registered)]
        bad == {n \in 1..Len(tree.items) : results[n].exc # "none"}
        first == CHOOSE n \in bad : \A m \in bad : n <= m
    IN  CASE tree.kind = "scalar" ->
               LET r == BaseSerializer_pythonify_in(tree.v, types, registered)
               IN  [exc |-> r.exc, val |-> Scalar(r.val)]
          [] tree.kind = "dict" /\ Len(tree.keys) = 1 /\ tree.keys[1] \in DOMAIN registered ->
               [exc |-> "none", val |-> Scalar(PyObject(registered[tree.keys[1]], tree.items[1]))]
          [] OTHER ->
               IF bad # {} THEN [exc |-> results[first].exc, val |-> Scalar(PyNone)]
               ELSE [exc |-> "none",
                     val |-> [tree EXCEPT !.items = [n \in 1..Len(@) |-> results[n].val]]]

\* a class a section lists in _types_to_register: its name, the methods it has,
\* and what _type_identifier() returns
TypeClass(name, has, id) == [name |-> name, has |-> has, id |-> id]

SerializerMethods == <<"_type_identifier", "_stringify", "_pythonify">>

\* the loop of _register from the n-th class on
RECURSIVE RegisterFrom(_, _, _)
RegisterFrom(reg, types, n) ==
    IF n > Len(types) THEN [registry |-> reg, exc |-> "none", missing |-> "none"]
    ELSE LET clazz == types[n]
             absent == {k \in 1..3 : SerializerMethods[k] \notin clazz.has}
             known == \E k \in 1..Len(reg.serializable_types) : reg.serializable_types[k] = clazz.id
         IN  IF absent # {}
             THEN [registry |-> reg, exc |-> "InvalidConfigurationType",
                   missing |-> SerializerMethods[CHOOSE k \in absent : \A j \in absent : k <= j]]
             ELSE RegisterFrom(
                     [reg EXCEPT !.registered_types = DictUpdate(@, [i \in {clazz.id} |-> clazz.name]),
                                 !.serializable_types = IF known THEN @ ELSE Append(@, clazz.id)],
                     types, n + 1)

\* _BaseSerializer._register accepting a class without _pythonify
BaseSerializer_register_unchecked(reg, section) ==
    [registry |-> [reg EXCEPT !.section_class = DictUpdate(@, [i \in {section.name} |-> section.class]),
                              !.registered_types =
                                  DictUpdate(@, [i \in {section.types[k].id : k \in 1..Len(section.types)} |->
                                                   "registered"])],
     exc |-> "none", missing |-> "none"]

\* _register storing the class of the section after the loop over its types
BaseSerializer_register_class_last(reg, section) ==
    LET r == RegisterFrom(reg, section.types, 1)
    IN  IF r.exc # "none" THEN r
        ELSE [r EXCEPT !.registry.section_class =
                           DictUpdate(@, [i \in {section.name} |-> section.class])]

\* _BaseSerializer._register(section)
BaseSerializer_register(reg, section) ==
    RegisterFrom([reg EXCEPT !.section_class = DictUpdate(@, [i \in {section.name} |-> section.class])],
                 section.types, 1)

\* the scalars given to the serializer: booleans, integers, and strings with and
\* without a colon
SerializerStrings ==
    {<<>>, <<"abc">>, <<"true", ":", "bool">>, <<"2", ":", "int">>, <<"abc", ":">>,
     <<"a", ":", "b">>, <<"abc", ":", "str">>, <<":">>, <<"ENV", "[", "PORT", "]">>}

SerializerScalars ==
    {PyBool(TRUE), PyBool(FALSE)} \cup {PyInt(n) : n \in {0, 2, 3, 8080, 70000}}
        \cup {PyStr(s) : s \in SerializerStrings}

RECURSIVE SeqsUpTo(_, _)
SeqsUpTo(S, n) ==
    IF n = 0 THEN {<<>>}
    ELSE LET shorter == SeqsUpTo(S, n - 1)
         IN  shorter \cup {Append(s, x) : s \in shorter, x \in S}

\* the items of the lists given to the serializer
SerializerItems ==
    {PyBool(TRUE), PyInt(2), PyStr(<<"abc">>), PyStr(<<"true", ":", "bool">>), PyStr(<<"abc", ":">>)}

\* the values given to the serializer
SerializerValues ==
    {Scalar(v) : v \in SerializerScalars}
        \cup {ListOf(items) : items \in SeqsUpTo(SerializerItems, MaxItems)}
        \cup {DictOf(<<"key">>, <<v>>) : v \in SerializerScalars}
        \cup {DictOf(<<"SCOPE">>, <<v>>) : v \in SerializerScalars}

\* _pythonify(_stringify(value))
RoundTrip(value) ==
    /\ request' = [op |-> "roundtrip", value |-> value]
    /\ response' = BaseSerializer_pythonify_value(BaseSerializer_stringify_value(value), registry)
    /\ UNCHANGED <<rest_vars, registry, data>>

\* _pythonify(value)
Pythonify(value) ==
    /\ request' = [op |-> "pythonify", value |-> value]
    /\ response' = BaseSerializer_pythonify_value(value, registry)
    /\ UNCHANGED <<rest_vars, registry, data>>

\* how many classes a section lists at most
MaxTypes == 2

\* the classes sections list: two complete ones, and ones lacking methods
TypeClasses ==
    {TypeClass("Scope", {"_type_identifier", "_stringify", "_pythonify"}, "SCOPE"),
     TypeClass("Frequency", {"_type_identifier", "_stringify", "_pythonify"}, "FREQUENCY"),
     TypeClass("NoIdentifier", {"_stringify", "_pythonify"}, "none"),
     TypeClass("NoStringify", {"_type_identifier"}, "NO_STRINGIFY"),
     TypeClass("NoPythonify", {"_type_identifier", "_stringify"}, "NO_PYTHONIFY")}

\* _BaseSerializer._register(section)
Register(section) ==
    LET r == BaseSerializer_register(registry, section)
    IN  /\ request' = [op |-> "register", section |-> section]
        /\ registry' = r.registry
        /\ response' = [exc |-> r.exc, missing |-> r.missing]
        /\ UNCHANGED <<rest_vars, data>>

RoundTripValue == \E value \in SerializerValues : RoundTrip(value)

PythonifyValue == \E value \in SerializerValues : Pythonify(value)

\* a section that lists Scope is registered
RegisterScope ==
    /\ "SCOPE" \notin DOMAIN registry.registered_types
    /\ \E scope \in {c \in TypeClasses : c.name = "Scope"} :
           Register([name |-> "DATA_NODE", class |-> "DataNodeConfig", types |-> <<scope>>])

NextSerializer == RoundTripValue \/ PythonifyValue \/ RegisterScope

\* values are written and read back
SpecSerializer == Init /\ [][NextSerializer]_vars

RegisterSection ==
    \E types \in SeqsUpTo(TypeClasses, MaxTypes) :
        Register([name |-> "DATA_NODE", class |-> "DataNodeConfig", types |-> types])

NextRegister == RegisterSection

\* sections are registered
SpecRegister == Init /\ [][NextRegister]_vars

\* C12: for every boolean, integer and string, and every list or dict of them,
\* _pythonify(_stringify(v)) returns v itself, with its type.
C12_RoundTrip ==
    request.op = "roundtrip" => response = [exc |-> "none", val |-> request.value]

\* the string ends with a colon and one of the serializable type names
HasTypeTag(s) ==
    /\ Len(s) >= 3
    /\ s[Len(s) - 1] = ":"
    /\ \E k \in 1..Len(SERIALIZABLE_TYPES) : s[Len(s)] = SERIALIZABLE_TYPES[k]

\* C19: _pythonify returns a string that carries no recognised type tag as it is,
\* also when the string contains a colon or ends with one, and raises nothing.
C19_UntaggedUnchanged ==
    (/\ request.op = "pythonify"
     /\ request.value.kind = "scalar"
     /\ request.value.v.t = "str"
     /\ ~HasTypeTag(request.value.v.s))
        => response = [exc |-> "none", val |-> request.value]

\* the first of _type_identifier, _stringify, _pythonify the class lacks
FirstMissing(clazz) ==
    IF "_type_identifier" \notin clazz.has THEN "_type_identifier"
    ELSE IF "_stringify" \notin clazz.has THEN "_stringify"
    ELSE IF "_pythonify" \notin clazz.has THEN "_pythonify"
    ELSE "none"

\* the type identifier is in _registered_types and in _SERIALIZABLE_TYPES
Registered(reg, id) ==
    /\ id \in DOMAIN reg.registered_types
    /\ \E k \in 1..Len(reg.serializable_types) : reg.serializable_types[k] = id

\* C20: _register raises InvalidConfigurationType exactly when a listed class lacks
\* _type_identifier, _stringify or _pythonify, naming the first method the first
\* such class lacks; the section's class and the classes listed before that class
\* are registered by then, that class and the ones after it are not added.
C20_RegisterTypes ==
    [][request'.op = "register" =>
        LET section == request'.section
            types == section.types
            bad == {n \in 1..Len(types) : FirstMissing(types[n]) # "none"}
            stop == IF bad = {} THEN Len(types) + 1 ELSE CHOOSE n \in bad : \A m \in bad : n <= m
        IN  /\ response'.exc = IF bad = {} THEN "none" ELSE "InvalidConfigurationType"
            /\ response'.missing = IF bad = {} THEN "none" ELSE FirstMissing(types[stop])
            /\ section.name \in DOMAIN registry'.section_class
            /\ registry'.section_class[section.name] = section.class
            /\ \A n \in 1..Len(types) :
                  IF n < stop
                  THEN /\ Registered(registry', types[n].id)
                       /\ registry'.registered_types[types[n].id] = types[n].name
                  ELSE (/\ "_type_identifier" \in types[n].has
                        /\ ~Registered(registry, types[n].id)
                        /\ \A m \in 1..(stop - 1) : types[m].id # types[n].id)
                           => /\ types[n].id \notin DOMAIN registry'.registered_types
                              /\ \A k \in 1..Len(registry'.serializable_types) :
                                     registry'.serializable_types[k] # types[n].id]_vars

\* a section listing Frequency and then a class without _pythonify was registered:
\* the call raised with Frequency registered and the other class not
C20_Witness ==
    /\ request.op = "register"
    /\ Len(request.section.types) = 2
    /\ request.section.types[1].name = "Frequency"
    /\ request.section.types[2].name = "NoPythonify"
    /\ response = [exc |-> "InvalidConfigurationType", missing |-> "_pythonify"]
    /\ Registered(registry, "FREQUENCY")
    /\ ~Registered(registry, "NO_PYTHONIFY")
    /\ request.section.name \in DOMAIN registry.section_class

\* -------------------------------------------------------- markdown factory

\* how many fragments a property string holds at most
MaxFragments == 3

\* a fragment of all_properties: text of the form name="value", which
\* _Factory._PROPERTY_RE matches, or other text, which it skips
Fragment(name, value) == [matches |-> TRUE, name |-> name, value |-> value]
OtherText == [matches |-> FALSE, name |-> "", value |-> ""]

\* _Factory._PROPERTY_RE.findall(all_properties): the (name, value) pairs in order
PropertyPairs(all_properties) == SelectSeq(all_properties, LAMBDA f : f.matches)

\* {property[0]: property[1] for property in property_pairs}, pair after pair
RECURSIVE PropertiesFrom(_, _, _)
PropertiesFrom(pairs, n, properties) ==
    IF n > Len(pairs) THEN properties
    ELSE PropertiesFrom(pairs, n + 1,
                        DictUpdate(properties, [k \in {pairs[n].name} |-> pairs[n].value]))

Properties(pairs) == PropertiesFrom(pairs, 1, [k \in {} |-> ""])

\* the element types that have a builder
BuiltTypes == {"text", "button"}

\* what create_element can return: None, an element, a string
NoElement == [kind |-> "None", element_type |-> "", properties |-> [k \in {} |-> ""]]
Element(element_type, properties) ==
    [kind |-> "element", element_type |-> element_type, properties |-> properties]
UnknownElement(element_type) ==
    [kind |-> "str: <|UNKNOWN ELEMENT TYPE '{element_type}'|>", element_type |-> element_type,
     properties |-> [k \in {} |-> ""]]

\* _Factory.call_builder(gui, element_type, properties): the element the builder of
\* the type makes from the properties, None for a type without a builder
Factory_call_builder(element_type, properties) ==
    IF element_type \in BuiltTypes THEN Element(element_type, properties) ELSE NoElement

\* create_element returning whatever call_builder returns
MarkdownFactory_create_element_no_placeholder(element_type, all_properties) ==
    Factory_call_builder(element_type, Properties(PropertyPairs(all_properties)))

\* _MarkdownFactory.create_element(gui, element_type, all_properties)
MarkdownFactory_create_element(element_type, all_properties) ==
    LET property_pairs == PropertyPairs(all_properties)
        properties == Properties(property_pairs)
        builder_md == Factory_call_builder(element_type, properties)
    IN  IF builder_md = NoElement THEN UnknownElement(element_type) ELSE builder_md

\* the fragments of the property strings
Fragments ==
    {Fragment("value", "x"), Fragment("value", "y"), Fragment("label", "x"), OtherText}

CreateElement(element_type, all_properties) ==
    /\ request' = [op |-> "create_element", element_type |-> element_type,
                   all_properties |-> all_properties]
    /\ response' = MarkdownFactory_create_element(element_type, all_properties)
    /\ UNCHANGED <<rest_vars, registry, data>>

NextMarkdown ==
    \E element_type \in BuiltTypes \cup {"unknown"}, all_properties \in SeqsUpTo(Fragments, MaxFragments) :
        CreateElement(element_type, all_properties)

\* the Markdown renderer creates elements
SpecMarkdown == Init /\ [][NextMarkdown]_vars

\* the value of the last fragment name="..." of the property string
LastValue(all_properties, name) ==
    all_properties[CHOOSE k \in 1..Len(all_properties) :
                      /\ all_properties[k].matches /\ all_properties[k].name = name
                      /\ \A j \in (k + 1)..Len(all_properties) :
                             ~(all_properties[j].matches /\ all_properties[j].name = name)].value

\* C13: create_element returns what the builder of the element type returns when
\* that is not None, and the string "<|UNKNOWN ELEMENT TYPE '<element_type>'|>"
\* exactly when it is None, never None; the builder gets, for a property named more
\* than once, the value of its last occurrence.
C13_CreateElement ==
    request.op = "create_element" =>
        LET names == {request.all_properties[k].name :
                         k \in {j \in 1..Len(request.all_properties) : request.all_properties[j].matches}}
        IN  /\ response # NoElement
            /\ response = UnknownElement(request.element_type) <=> request.element_type \notin BuiltTypes
            /\ request.element_type \in BuiltTypes =>
                  /\ response.kind = "element"
                  /\ response.element_type = request.element_type
                  /\ DOMAIN response.properties = names
                  /\ \A n \in names : response.properties[n] = LastValue(request.all_properties, n)

\* an element was created from value="x" ... value="y": the builder got "y"
C13_Witness ==
    /\ request.op = "create_element"
    /\ request.element_type = "text"
    /\ request.all_properties = <<Fragment("value", "x"), OtherText, Fragment("value", "y")>>
    /\ response = Element("text", [k \in {"value"} |-> "y"])

\* -------------------------------------------------------- pandas data accessor

\* how many rows a table holds at most
MaxRows == 4

\* how many filters a payload carries at most
MaxFilters == 2

\* a string cell, one token per character
Text(chars) == PyStr(chars)

\* str.lower() on the characters the tables hold
LowerChar(c) ==
    CASE c = "A" -> "a"
      [] c = "B" -> "b"
      [] c = "C" -> "c"
      [] OTHER -> c

StrLower(s) == [k \in 1..Len(s) |-> LowerChar(s[k])]

\* sub in s
StrContains(s, sub) ==
    \E k \in 0..(Len(s) - Len(sub)) : SubSeq(s, k + 1, k + Len(sub)) = sub

\* the frame of test_filters: {"name": ["A", "B", "C", "A"], "value": [1, 2, 3, 4]}
FilterDataframe ==
    <<Row(0, Text(<<"A">>), PyInt(1)), Row(1, Text(<<"B">>), PyInt(2)),
      Row(2, Text(<<"C">>), PyInt(3)), Row(3, Text(<<"A">>), PyInt(4))>>

\* the sample_df fixture with its words cut to two characters: Apple, Banana,
\* Cherry, apple in the string column and 10, 20, 30, 40 in the number column
SampleDataframe ==
    <<Row(0, Text(<<"A", "p">>), PyInt(10)), Row(1, Text(<<"B", "a">>), PyInt(20)),
      Row(2, Text(<<"C", "h">>), PyInt(30)), Row(3, Text(<<"a", "p">>), PyInt(40))>>

Dataframes == {SmallDataframe, FilterDataframe, SampleDataframe}

\* the type of a column: a filter on it carries a value of that type
ColumnType(col) == IF col = "value" THEN "int" ELSE "str"

\* one entry of payload["filters"]
Filter(col, action, value, matchCase) ==
    [col |-> col, action |-> action, value |-> value, matchCase |-> matchCase]

\* the term of a filter comparing the characters as they are, whatever matchCase
FilterMatchesExactly(row, fd) ==
    LET cell == row.cells[fd.col]
        val == fd.value
    IN  IF IsInstanceStr(val)
        THEN CASE fd.action = "contains" -> StrContains(cell.s, val.s)
               [] fd.action = "==" -> cell.s = val.s
               [] fd.action = "!=" -> cell.s # val.s
               [] OTHER -> FALSE
        ELSE CASE fd.action = "==" -> AsInt(cell) = AsInt(val)
               [] fd.action = "!=" -> AsInt(cell) # AsInt(val)
               [] fd.action = ">" -> AsInt(cell) > AsInt(val)
               [] fd.action = "<" -> AsInt(cell) < AsInt(val)
               [] OTHER -> FALSE

\* the term of the query one filter makes, evaluated on a row
FilterMatches(row, fd) ==
    LET cell == row.cells[fd.col]
        val == fd.value
        match_case == fd.matchCase
    IN  IF IsInstanceStr(val)
        THEN LET left == IF ~match_case /\ fd.action # "contains" THEN StrLower(cell.s) ELSE cell.s
                 right == IF ~match_case THEN StrLower(val.s) ELSE val.s
             IN  CASE fd.action = "contains" ->
                          IF match_case THEN StrContains(left, right)
                          ELSE StrContains(StrLower(left), StrLower(right))
                   [] fd.action = "==" -> left = right
                   [] fd.action = "!=" -> left # right
                   [] OTHER -> FALSE
        ELSE CASE fd.action = "==" -> AsInt(cell) = AsInt(val)
               [] fd.action = "!=" -> AsInt(cell) # AsInt(val)
               [] fd.action = ">" -> AsInt(cell) > AsInt(val)
               [] fd.action = "<" -> AsInt(cell) < AsInt(val)
               [] OTHER -> FALSE

\* the query with its terms joined by "or"
QueryAnyFilter(rows, filters) ==
    IF filters = <<>> THEN rows
    ELSE SelectSeq(rows, LAMBDA row : \E k \in 1..Len(filters) : FilterMatches(row, filters[k]))

\* df.query(query): the terms of the filters are joined by " and "; each term
\* keeps the rows it matches, in their order
RECURSIVE QueryFrom(_, _, _)
QueryFrom(rows, filters, n) ==
    IF n > Len(filters) THEN rows
    ELSE QueryFrom(SelectSeq(rows, LAMBDA row : FilterMatches(row, filters[n])), filters, n + 1)

Query(rows, filters) == QueryFrom(rows, filters, 1)

\* int(payload["start"]) for an int, int(str(...), base=10) for anything else,
\* the fallback when that fails
DigitOf(char) ==
    CASE char = "0" -> 0
      [] char = "1" -> 1
      [] char = "2" -> 2
      [] char = "3" -> 3
      [] OTHER -> -1

PayloadInt(v, fallback) ==
    IF IsInstanceInt(v) THEN AsInt(v)
    ELSE IF IsInstanceStr(v) /\ Len(v.s) = 1 /\ DigitOf(v.s[1]) >= 0 THEN DigitOf(v.s[1])
    ELSE fallback

\* the row sent to the front end: the requested columns and the row index
Transferred(row, columns) ==
    [index |-> row.index, cells |-> [c \in columns |-> row.cells[c]]]

\* get_data ignoring payload["end"]
PandasDataAccessor_get_data_to_last(df, payload) ==
    LET filtered == Query(df, payload.filters)
        rowcount == Len(filtered)
        start0 == PayloadInt(payload.start, 0)
        start == IF start0 < 0 \/ start0 >= rowcount THEN 0 ELSE start0
        rows == SubSeq(filtered, start + 1, rowcount)
    IN  [rowcount |-> rowcount, fullrowcount |-> Len(df), start |-> start,
         data |-> [k \in 1..Len(rows) |-> Transferred(rows[k], payload.columns)]]

\* _PandasDataAccessor.get_data(var_name, value, payload, data_format) for a paged
\* table: the filters, then the window start..end, then the requested columns
PandasDataAccessor_get_data(df, payload) ==
    LET fullrowcount == Len(df)
        filtered == Query(df, payload.filters)
        rowcount == Len(filtered)
        start0 == PayloadInt(payload.start, 0)
        end0 == PayloadInt(payload.end, -1)
        start == IF start0 < 0 \/ start0 >= rowcount THEN 0 ELSE start0
        end == IF end0 < 0 \/ end0 >= rowcount THEN rowcount - 1 ELSE end0
        rows == SubSeq(filtered, start + 1, end + 1)
    IN  [rowcount |-> rowcount, fullrowcount |-> fullrowcount, start |-> start,
         data |-> [k \in 1..Len(rows) |-> Transferred(rows[k], payload.columns)]]

Columns == {"name", "value"}

Payload(start, end, filters, columns) ==
    [start |-> start, end |-> end, filters |-> filters, columns |-> columns]

\* the values a payload gives for start and end: integers and numeric strings
StartValues == {PyInt(n) : n \in 0..MaxRows} \cup {Text(<<c>>) : c \in {"0", "1", "2"}}
EndValues == {PyInt(n) : n \in (-1)..MaxRows} \cup {Text(<<c>>) : c \in {"0", "1", "2"}}

\* the filters on the string column, with and without matchCase
StringFilters ==
    {Filter("name", action, Text(chars), matchCase) :
        action \in {"==", "!=", "contains"}, chars \in {<<"a", "p">>, <<"A">>},
        matchCase \in BOOLEAN}

\* the filters of test_filters, which leave matchCase out: it is then False
TestFilters ==
    {Filter("name", "==", Text(<<"A">>), FALSE), Filter("name", "!=", Text(<<"A">>), FALSE),
     Filter("name", "==", Text(<<>>), FALSE), Filter("name", "!=", Text(<<>>), FALSE),
     Filter("value", "==", PyInt(2), FALSE), Filter("value", ">", PyInt(1), FALSE)}

Payloads ==
    {Payload(start, end, <<>>, Columns) : start \in StartValues, end \in EndValues}
    \cup {Payload(PyInt(0), PyInt(-1), <<fd>>, columns) :
             fd \in StringFilters, columns \in {Columns, {"value"}}}
    \cup {Payload(PyInt(0), PyInt(-1), filters, columns) :
             filters \in SeqsUpTo(TestFilters, MaxFilters), columns \in {Columns, {"value"}}}

\* the application binds a dataframe to the variable of the table
Bind(df) ==
    /\ data' = df
    /\ request' = [op |-> "bind"]
    /\ response' = NoCall
    /\ UNCHANGED <<rest_vars, registry>>

\* the front end asks for the rows of the table
GetData(payload) ==
    /\ request' = [op |-> "get_data", payload |-> payload]
    /\ response' = PandasDataAccessor_get_data(data, payload)
    /\ UNCHANGED <<rest_vars, registry, data>>

BindDataframe == \E df \in Dataframes : Bind(df)
GetRows == \E payload \in Payloads : GetData(payload)

NextPandas == BindDataframe \/ GetRows

\* a table bound to a dataframe and read through the accessor
SpecPandas == Init /\ [][NextPandas]_vars

\* the integer a start or end of the payload stands for
WindowInt(v) == IF IsInstanceInt(v) THEN AsInt(v) ELSE DigitOf(v.s[1])

Satisfying ==
    {p \in 1..Len(data) :
        \A j \in 1..Len(request.payload.filters) :
            FilterMatches(data[p], request.payload.filters[j])}

\* where the row with this index is in the data
PositionOf(index) == CHOOSE p \in 1..Len(data) : data[p].index = index

\* C15: with several filters the rows returned (for the whole window) are exactly
\* the rows that satisfy all of them, in the order of the data, each with its own
\* index in _tp_index; filters that exclude each other give no row; a filter may
\* be on a column that is not among the requested columns.
C15_Filters ==
    (/\ request.op = "get_data"
     /\ request.payload.start = PyInt(0)
     /\ request.payload.end = PyInt(-1)) =>
        /\ Len(response.data) = Cardinality(Satisfying)
        /\ \A k \in 1..Len(response.data) :
               /\ \E p \in Satisfying :
                      /\ response.data[k].index = data[p].index
                      /\ \A c \in request.payload.columns :
                             response.data[k].cells[c] = data[p].cells[c]
               /\ \A l \in 1..(k - 1) :
                      PositionOf(response.data[l].index) < PositionOf(response.data[k].index)

\* name != "A" and value == 2 on the frame A, B, C, A with only the column value
\* requested: the one row returned is the row of index 1
C15_Witness ==
    /\ request.op = "get_data"
    /\ data = FilterDataframe
    /\ request.payload.columns = {"value"}
    /\ request.payload.filters =
           <<Filter("name", "!=", Text(<<"A">>), FALSE), Filter("value", "==", PyInt(2), FALSE)>>
    /\ Len(response.data) = 1
    /\ response.data[1].index = 1

\* the indexes of the rows a get_data returned
IndexesOf(returned) == {returned.data[k].index : k \in 1..Len(returned.data)}

\* C16: on a string column "==", "!=" and "contains" compare the characters as
\* they are when matchCase is true and without regard to case when it is false;
\* with matchCase false "!=" returns exactly the rows "==" does not return for
\* the same value.
C16_MatchCase ==
    (/\ request.op = "get_data"
     /\ request.payload.start = PyInt(0)
     /\ request.payload.end = PyInt(-1)
     /\ Len(request.payload.filters) = 1
     /\ request.payload.filters[1].col = "name") =>
        LET fd == request.payload.filters[1]
            Fold(s) == IF fd.matchCase THEN s ELSE StrLower(s)
            expected ==
                {data[p].index : p \in
                    {q \in 1..Len(data) :
                        LET cell == Fold(data[q].cells["name"].s)
                            val == Fold(fd.value.s)
                        IN  CASE fd.action = "==" -> cell = val
                              [] fd.action = "!=" -> cell # val
                              [] fd.action = "contains" -> StrContains(cell, val)}}
            equal ==
                PandasDataAccessor_get_data(data,
                    [request.payload EXCEPT !.filters = <<[fd EXCEPT !.action = "=="]>>])
        IN  /\ IndexesOf(response) = expected
            /\ (fd.action = "!=" /\ ~fd.matchCase) =>
                   IndexesOf(response) = {data[p].index : p \in 1..Len(data)} \ IndexesOf(equal)

\* != "ap" without matchCase on Ap, Ba, Ch, ap returns Ba and Ch
C16_Witness ==
    /\ request.op = "get_data"
    /\ data = SampleDataframe
    /\ request.payload.filters = <<Filter("name", "!=", Text(<<"a", "p">>), FALSE)>>
    /\ IndexesOf(response) = {1, 2}

\* -------------------------------------------------------- row operations

\* the row indexes of a table
Labels(df) == {df[k].index : k \in 1..Len(df)}

\* on_edit(value, payload): df.at[payload["index"], payload["col"]] = payload["value"]
PandasDataAccessor_on_edit(df, payload) ==
    [k \in 1..Len(df) |->
        IF df[k].index = payload.index
        THEN [df[k] EXCEPT !.cells[payload.col] = payload.value]
        ELSE df[k]]

\* on_delete(value, payload): df.drop(payload["index"])
PandasDataAccessor_on_delete(df, payload) ==
    SelectSeq(df, LAMBDA row : row.index # payload.index)

\* the row on_add makes when it is given none: 0 in a number column, "" in another
DefaultRow == [c \in Columns |-> IF ColumnType(c) = "int" THEN PyInt(0) ELSE Text(<<>>)]

\* on_add appending the new row whatever the index
PandasDataAccessor_on_add_last(df, payload, new_row) ==
    LET cells == IF new_row = PyNone THEN DefaultRow ELSE new_row
        rows == Append([k \in 1..Len(df) |-> df[k].cells], cells)
    IN  [k \in 1..Len(rows) |-> [index |-> k - 1, cells |-> rows[k]]]

\* on_add(value, payload, new_row): for an index above 0 the rows before the index,
\* the new row and the rows after it, renumbered; otherwise the new row first with
\* index 0 and every other index moved up by one
PandasDataAccessor_on_add(df, payload, new_row) ==
    LET cells == IF new_row = PyNone THEN DefaultRow ELSE new_row
        index == payload.index
    IN  IF index > 0
        THEN LET rows == SubSeq(df, 1, index) \o <<[index |-> -1, cells |-> cells]>>
                         \o SubSeq(df, index + 1, Len(df))
             IN  [k \in 1..Len(rows) |-> [index |-> k - 1, cells |-> rows[k].cells]]
        ELSE <<[index |-> 0, cells |-> cells]>>
             \o [k \in 1..Len(df) |-> [df[k] EXCEPT !.index = df[k].index + 1]]

\* the cell values the editing tests send, per column
EditValues(col) == IF col = "value" THEN {PyInt(10)} ELSE {Text(<<"B">>)}

\* the rows test_add supplies: none, or ["New", 100]
NewRows ==
    {PyNone, [c \in Columns |-> IF c = "name" THEN Text(<<"N", "e", "w">>) ELSE PyInt(100)]}

\* the user edits a cell of a row the table shows
OnEdit(index, col, value) ==
    /\ index \in Labels(data)
    /\ request' = [op |-> "on_edit", index |-> index, col |-> col, value |-> value]
    /\ response' = [table |-> PandasDataAccessor_on_edit(data, request')]
    /\ UNCHANGED <<rest_vars, registry, data>>

\* the user deletes a row the table shows
OnDelete(index) ==
    /\ index \in Labels(data)
    /\ request' = [op |-> "on_delete", index |-> index]
    /\ response' = [table |-> PandasDataAccessor_on_delete(data, request')]
    /\ UNCHANGED <<rest_vars, registry, data>>

\* the user adds a row at a place of the table
OnAdd(index, new_row) ==
    /\ index \in 0..Len(data)
    /\ request' = [op |-> "on_add", index |-> index, new_row |-> new_row]
    /\ response' = [table |-> PandasDataAccessor_on_add(data, request', new_row)]
    /\ UNCHANGED <<rest_vars, registry, data>>

\* the callback of the table assigns the returned table to the bound variable
KeepReturned ==
    /\ request.op \in {"on_edit", "on_delete", "on_add"}
    /\ data \in Dataframes
    /\ Len(response.table) <= MaxRows
    /\ data' = response.table
    /\ request' = [op |-> "assign"]
    /\ UNCHANGED <<rest_vars, registry, response>>

EditCell == \E index \in 0..(MaxRows - 1), col \in Columns : \E value \in EditValues(col) :
                OnEdit(index, col, value)
DeleteRow == \E index \in 0..(MaxRows - 1) : OnDelete(index)
AddRow == \E index \in 0..MaxRows, new_row \in NewRows : OnAdd(index, new_row)

NextRows == BindDataframe \/ EditCell \/ DeleteRow \/ AddRow \/ KeepReturned

\* a table edited through the accessor
SpecRows == Init /\ [][NextRows]_vars

MaxJobs == 2

Scenarios == {"SCENARIO_1", "SCENARIO_2"}
Jobs == {"JOB_1", "JOB_2"}

\* one sentence of an error message: what went wrong, and on which entity
Err(kind, id) == [kind |-> kind, id |-> id]

\* state.assign(error_id, message): the message is its sentences, none for ""
Assign(error_var, errs) == [var |-> error_var, errs |-> errs]

\* what a request did: the calls of state.assign and of core_delete, in order
Did(assigns, deletes) == [assigns |-> assigns, deletes |-> deletes]

\* crud_scenario deleting without asking is_deletable
GuiCoreContext_crud_scenario_unguarded(payload, deletable, failing) ==
    IF payload.id \in failing
    THEN Did(<<Assign(payload.error_id, <<Err("Error deleting Scenario.", payload.id)>>)>>,
             <<payload.id>>)
    ELSE Did(<<>>, <<payload.id>>)

\* _GuiCoreContext.crud_scenario(state, id, payload) with update and delete set:
\* is_deletable(scenario_id), then core_delete(scenario_id)
GuiCoreContext_crud_scenario(payload, deletable, failing) ==
    IF payload.id \notin deletable
    THEN Did(<<Assign(payload.error_id, <<Err("is not deletable", payload.id)>>)>>, <<>>)
    ELSE IF payload.id \in failing
    THEN Did(<<Assign(payload.error_id, <<Err("Error deleting Scenario.", payload.id)>>)>>,
             <<payload.id>>)
    ELSE Did(<<>>, <<payload.id>>)

\* the loop of act_on_jobs over job_ids, from the n-th on: is_readable(job_id),
\* then is_deletable(job_id) or is_editable(job_id), then the deletion or the cancel
RECURSIVE JobsFrom(_, _, _, _, _, _)
JobsFrom(payload, n, readable, allowed, failing, did) ==
    IF n > Len(payload.id) THEN did
    ELSE LET job_id == payload.id[n]
             delete == payload.action = "delete"
             next ==
                 IF job_id \notin readable
                 THEN Did(Append(did.assigns, Err("is not readable", job_id)), did.deletes)
                 ELSE IF job_id \notin allowed
                 THEN Did(Append(did.assigns,
                                 Err(IF delete THEN "is not deletable" ELSE "is not cancelable", job_id)),
                          did.deletes)
                 ELSE IF job_id \in failing
                 THEN Did(Append(did.assigns,
                                 Err(IF delete THEN "Error deleting job." ELSE "Error canceling job.", job_id)),
                          IF delete THEN Append(did.deletes, job_id) ELSE did.deletes)
                 ELSE Did(did.assigns, IF delete THEN Append(did.deletes, job_id) ELSE did.deletes)
         IN  JobsFrom(payload, n + 1, readable, allowed, failing, next)

\* _GuiCoreContext.act_on_jobs(state, id, payload): the errors of all the jobs
\* are joined and assigned once
GuiCoreContext_act_on_jobs(payload, readable, allowed, failing) ==
    LET did == JobsFrom(payload, 1, readable, allowed, failing, Did(<<>>, <<>>))
    IN  Did(<<Assign(payload.error_id, did.assigns)>>, did.deletes)

ErrorIds == {"error_var", "other_var"}

\* the scenario selector asks to delete a scenario
CrudScenario(id, error_id, deletable, failing) ==
    /\ request' = [op |-> "crud_scenario", payload |-> [id |-> id, error_id |-> error_id],
                   readable |-> {}, allowed |-> deletable, failing |-> failing]
    /\ response' = GuiCoreContext_crud_scenario(request'.payload, deletable, failing)
    /\ UNCHANGED <<rest_vars, registry, data>>

\* the job selector asks to delete or to cancel jobs
ActOnJobs(ids, action, error_id, readable, allowed, failing) ==
    /\ request' = [op |-> "act_on_jobs",
                   payload |-> [id |-> ids, action |-> action, error_id |-> error_id],
                   readable |-> readable, allowed |-> allowed, failing |-> failing]
    /\ response' = GuiCoreContext_act_on_jobs(request'.payload, readable, allowed, failing)
    /\ UNCHANGED <<rest_vars, registry, data>>

DeleteScenario ==
    \E id \in Scenarios, error_id \in ErrorIds, deletable \in SUBSET Scenarios,
       failing \in SUBSET Scenarios :
        CrudScenario(id, error_id, deletable, failing)

ActOnSelectedJobs ==
    \E ids \in SeqsUpTo(Jobs, MaxJobs), action \in {"delete", "cancel"},
       readable \in SUBSET Jobs, allowed \in SUBSET Jobs, failing \in {{}, Jobs} :
        ActOnJobs(ids, action, "error_var", readable, allowed, failing)

NextGuiCore == DeleteScenario \/ ActOnSelectedJobs

\* the scenario and job selectors of the GUI send their requests
SpecGuiCore == Init /\ [][NextGuiCore]_vars

\* the message assigned holds a sentence of this kind
Says(assign, kind) == \E k \in 1..Len(assign.errs) : assign.errs[k].kind = kind

TagClasses ==
    {TypeClass("Scope", {"_type_identifier", "_stringify", "_pythonify"}, "SCOPE"),
     TypeClass("ScopeV2", {"_type_identifier", "_stringify", "_pythonify"}, "SCOPE"),
     TypeClass("Label", {"_type_identifier", "_stringify", "_pythonify"}, "str"),
     TypeClass("NoPythonify", {"_type_identifier", "_stringify"}, "NO_PYTHONIFY")}

\* the sections that list them: two classes of section under one name
TagSections ==
    {[name |-> "DATA_NODE", class |-> "DataNodeConfig"],
     [name |-> "DATA_NODE", class |-> "MigrationConfig"]}

\* the scalars read back: templates, values that are not strings, tagged and
\* untagged strings
TaggedScalars ==
    {Env("PORT"), EnvT("PORT", "int"), PyNone, PyInt(2), PyBool(TRUE),
     PyStr(<<"x">>), PyStr(<<"x", ":", "str">>), PyStr(<<"x", ":", "SECTION">>),
     PyStr(<<"x", ":", "SCOPE">>), PyStr(<<"true", ":", "bool">>), PyStr(<<"2", ":", "int">>),
     PyStr(<<"x", ":">>)}

\* the items of the lists and dicts read back
TaggedItems ==
    {EnvT("PORT", "int"), PyStr(<<"x", ":", "str">>), PyStr(<<"x", ":", "SCOPE">>),
     PyStr(<<"x", ":">>)}

TaggedValues ==
    {Scalar(v) : v \in TaggedScalars}
        \cup {ListOf(items) : items \in SeqsUpTo(TaggedItems, MaxItems)}
        \cup {ListOf(<<PyInt(2), v>>) : v \in TaggedItems}
        \cup {DictOf(<<key>>, <<v>>) : key \in {"key", "SCOPE"}, v \in TaggedItems \cup {PyInt(2)}}
        \cup {DictOf(<<"SCOPE", "key">>, <<v, PyStr(<<"true", ":", "bool">>)>>) : v \in TaggedItems}

RegisterTagged ==
    \E section \in TagSections, types \in SeqsUpTo(TagClasses, MaxTypes) :
        Register([name |-> section.name, class |-> section.class, types |-> types])

PythonifyTagged == \E value \in TaggedValues : Pythonify(value)

NextTypes == RegisterTagged \/ PythonifyTagged

\* sections register their types and values are read back
SpecTypes == Init /\ [][NextTypes]_vars

\* what _pythonify returns for the n-th item of the request when given it alone
ItemAlone(n) == BaseSerializer_pythonify_value(Scalar(request.value.items[n]), registry)

\* the request is _pythonify of this string
PythonifyOf(toks) ==
    request.op = "pythonify" /\ request.value.kind = "scalar" /\ request.value.v = PyStr(toks)

\* C21 as stated: _pythonify returns unchanged a value matching the ENV[...]
\* pattern and any value that is not a string, dict or list; "x:str" and
\* "x:SECTION" both give the string "x"; a dict or list whose elements can be
\* converted comes back as a dict or list with the same keys, length and order,
\* its elements converted one by one.
C21_PassThrough ==
    request.op = "pythonify" =>
        /\ (request.value.kind = "scalar"
                /\ (MatchesTemplate(request.value.v) \/ request.value.v.t # "str")) =>
               response = [exc |-> "none", val |-> request.value]
        /\ (PythonifyOf(<<"x", ":", "str">>) \/ PythonifyOf(<<"x", ":", "SECTION">>)) =>
               response = [exc |-> "none", val |-> Scalar(PyStr(<<"x">>))]
        /\ (request.value.kind \in {"list", "dict"}
                /\ \A n \in 1..Len(request.value.items) : ItemAlone(n).exc = "none") =>
               /\ response.exc = "none"
               /\ response.val.kind = request.value.kind
               /\ response.val.keys = request.value.keys
               /\ Len(response.val.items) = Len(request.value.items)
               /\ \A n \in 1..Len(request.value.items) :
                      response.val.items[n] = ItemAlone(n).val.v

\* C21 as amended: the same, but "x:str" gives "x" only while no class is
\* registered under "str"; a dict whose single key is a registered type
\* identifier is handed to that type; and a dict or list one of whose elements
\* raises makes the call raise what the first such element raises.
C21_PassThroughAmended ==
    request.op = "pythonify" =>
        LET registered == DOMAIN registry.registered_types
            items == request.value.items
            raising == {n \in 1..Len(items) : ItemAlone(n).exc # "none"}
        IN  /\ (request.value.kind = "scalar"
                    /\ (MatchesTemplate(request.value.v) \/ request.value.v.t # "str")) =>
                   response = [exc |-> "none", val |-> request.value]
            /\ PythonifyOf(<<"x", ":", "SECTION">>) =>
                   response = [exc |-> "none", val |-> Scalar(PyStr(<<"x">>))]
            /\ PythonifyOf(<<"x", ":", "str">>) =>
                   response = [exc |-> "none",
                               val |-> Scalar(IF "str" \in registered
                                              THEN PyObject(registry.registered_types["str"], PyStr(<<"x">>))
                                              ELSE PyStr(<<"x">>))]
            /\ (request.value.kind = "dict" /\ Len(request.value.keys) = 1
                    /\ request.value.keys[1] \in registered) =>
                   response = [exc |-> "none",
                               val |-> Scalar(PyObject(registry.registered_types[request.value.keys[1]],
                                                       items[1]))]
            /\ (request.value.kind \in {"list", "dict"}
                    /\ ~(request.value.kind = "dict" /\ Len(request.value.keys) = 1
                            /\ request.value.keys[1] \in registered)) =>
                   IF raising # {}
                   THEN response.exc = ItemAlone(CHOOSE n \in raising : \A m \in raising : n <= m).exc
                   ELSE /\ response.exc = "none"
                        /\ response.val.kind = request.value.kind
                        /\ response.val.keys = request.value.keys
                        /\ Len(response.val.items) = Len(items)
                        /\ \A n \in 1..Len(items) : response.val.items[n] = ItemAlone(n).val.v

\* the list ["ENV[PORT]:int", "x:str"] was read back while no class is registered
\* under "str": the template is kept, the tag str is dropped
C21_Witness ==
    /\ request.op = "pythonify"
    /\ request.value = ListOf(<<EnvT("PORT", "int"), PyStr(<<"x", ":", "str">>)>>)
    /\ "str" \notin DOMAIN registry.registered_types
    /\ response = [exc |-> "none", val |-> ListOf(<<EnvT("PORT", "int"), PyStr(<<"x">>)>>)]

\* the classes of the section of the request that _register got to: those before
\* the first class lacking a method
Processed ==
    LET types == request.section.types
        bad == {n \in 1..Len(types) : FirstMissing(types[n]) # "none"}
    IN  IF bad = {} THEN 1..Len(types)
        ELSE 1..((CHOOSE n \in bad : \A m \in bad : n <= m) - 1)

\* C22: a registered type goes before a built-in tag: once a class is registered
\* under the identifier T, also when T is bool, int, float, datetime, timedelta,
\* function, class, enum or str, _pythonify of "v:T" returns that class's
\* _pythonify("v"); of the classes registered under one identifier the last is used.
C22_RegisteredFirst ==
    [][/\ (/\ request'.op = "pythonify"
           /\ request'.value.kind = "scalar"
           /\ request'.value.v.t = "str"
           /\ ~MatchesTemplate(request'.value.v)
           /\ Len(request'.value.v.s) = 3
           /\ request'.value.v.s[2] = ":"
           /\ request'.value.v.s[3] \in DOMAIN registry'.registered_types) =>
              response' = [exc |-> "none",
                           val |-> Scalar(PyObject(registry'.registered_types[request'.value.v.s[3]],
                                                   PyStr(<<request'.value.v.s[1]>>)))]
       /\ request'.op = "register" =>
              LET types == request'.section.types
                  Last(id) == CHOOSE n \in Processed' :
                                  /\ types[n].id = id
                                  /\ \A m \in Processed' : types[m].id = id => m <= n
              IN  \A id \in DOMAIN registry'.registered_types :
                      IF \E n \in Processed' : types[n].id = id
                      THEN registry'.registered_types[id] = types[Last(id)].name
                      ELSE /\ id \in DOMAIN registry.registered_types
                           /\ registry'.registered_types[id] = registry.registered_types[id]
       /\ request'.op # "register" => registry' = registry
      ]_vars

\* "x:str" was read back after a class was registered under "str": the class got it
C22_Witness ==
    /\ request.op = "pythonify"
    /\ request.value = Scalar(PyStr(<<"x", ":", "str">>))
    /\ "str" \in DOMAIN registry.registered_types
    /\ response = [exc |-> "none", val |-> Scalar(PyObject("Label", PyStr(<<"x">>)))]

\* _SERIALIZABLE_TYPES holds no entry twice, starts with the ten built-in tags and
\* holds every key of _registered_types; _section_class has the global node
SerializerTypesSound(reg) ==
    LET types == reg.serializable_types
    IN  /\ \A j, k \in 1..Len(types) : types[j] = types[k] => j = k
        /\ Len(types) >= Len(SERIALIZABLE_TYPES)
        /\ SubSeq(types, 1, Len(SERIALIZABLE_TYPES)) = SERIALIZABLE_TYPES
        /\ \A id \in DOMAIN reg.registered_types : \E k \in 1..Len(types) : types[k] = id
        /\ "TAIPY" \in DOMAIN reg.section_class

\* C23: after any _register calls, those that raise and those that register a
\* section again included, _SERIALIZABLE_TYPES has no duplicate, still starts with
\* the ten built-in tags in their order and holds every key of _registered_types;
\* _section_class maps "TAIPY" to a class and each section name to the class of the
\* section registered last under it.
C23_RegistrySound ==
    [][/\ SerializerTypesSound(registry)
       /\ SerializerTypesSound(registry')
       /\ request'.op = "register" =>
              /\ DOMAIN registry'.section_class =
                     DOMAIN registry.section_class \cup {request'.section.name}
              /\ \A name \in DOMAIN registry'.section_class :
                     registry'.section_class[name] =
                         IF name = request'.section.name THEN request'.section.class
                         ELSE registry.section_class[name]
       /\ request'.op # "register" => registry'.section_class = registry.section_class
      ]_vars

\* the section DATA_NODE was registered again with another class and a type that
\* cannot be registered: the call raised, the new class is stored
C23_Witness ==
    /\ request.op = "register"
    /\ response.exc = "InvalidConfigurationType"
    /\ request.section.name = "DATA_NODE"
    /\ request.section.class = "MigrationConfig"
    /\ Len(request.section.types) = 2
    /\ request.section.types[1].id = "SCOPE"
    /\ registry.section_class["DATA_NODE"] = "MigrationConfig"
    /\ registry.registered_types["SCOPE"] = request.section.types[1].name
    /\ SerializerTypesSound(registry)

\* ------------------------------------------------- dictionaries of a section

\* the dictionaries handed to RestConfig(**kwargs), _from_dict and _update: with
\* and without the five keys, with None values, with a template, with other keys
SectionDicts ==
    {EmptyDict,
     [k \in {"port", "extra"} |-> IF k = "port" THEN PyInt(8080) ELSE PyStr(<<"x">>)],
     [k \in {"port", "host", "other"} |-> IF k = "host" THEN PyStr(<<"0.0.0.0">>) ELSE PyNone],
     [k \in {"use_https", "extra"} |->
         IF k = "use_https" THEN EnvT("USE_HTTPS", "bool") ELSE PyStr(<<"y">>)],
     [k \in {"use_https", "ssl_cert", "ssl_key"} |->
         CASE k = "use_https" -> PyBool(TRUE)
           [] k = "ssl_cert" -> PyStr(<<"cert.pem">>)
           [] OTHER -> PyStr(<<"key.pem">>)]}

\* the section the calls of SpecDict are made on replaces the previous one; the
\* result of an earlier round trip is dropped
Keep(heap, section, result, name) ==
    /\ Heap(heap, section, result)
    /\ last_call' = name
    /\ rest_before' = IF python_rest = 0 THEN Defaults ELSE objs[python_rest].attr
    /\ UNCHANGED <<environ, collector, lib_vars>>

\* section = RestConfig(**kwargs): the keyword arguments named like the five
\* parameters are bound to them, the parameters left out have their defaults, and
\* the other keyword arguments are the properties
New(kwargs) ==
    LET made == RestConfig_init(objs, [k \in FieldKeySet |-> DictPop(kwargs, k, Defaults[k])],
                                DictWithout(kwargs, FieldKeySet))
    IN  /\ Keep(made.heap, made.ref, 0, "init")
        /\ raised' = "none"

\* section = RestConfig._from_dict(as_dict)
FromDict(as_dict) ==
    LET made == RestConfig_from_dict(objs, as_dict)
    IN  /\ Keep(made.heap, made.ref, 0, "from_dict")
        /\ raised' = "none"

\* section._update(config_as_dict)
Update(config_as_dict) ==
    /\ python_rest # 0
    /\ LET r == RestConfig_update(objs, python_rest, config_as_dict, environ)
       IN  /\ Keep(r.heap, python_rest, 0, "update")
           /\ raised' = r.exc

\* section._clean()
Clean ==
    /\ python_rest # 0
    /\ Keep(RestConfig_clean(objs, python_rest), python_rest, 0, "clean")
    /\ raised' = "none"

\* result = RestConfig._from_dict(section._to_dict())
ToDictFromDict ==
    /\ python_rest # 0
    /\ LET made == RestConfig_from_dict(objs, RestConfig_to_dict(objs, python_rest))
       IN  /\ Keep(made.heap, python_rest, made.ref, "round_trip")
           /\ raised' = "none"

NewSection == \E kwargs \in SectionDicts : New(kwargs)

SectionFromDict == \E as_dict \in SectionDicts : FromDict(as_dict)

UpdateSection == \E config_as_dict \in SectionDicts : Update(config_as_dict)

NextDict ==
    \/ NewSection
    \/ SectionFromDict
    \/ UpdateSection
    \/ Clean
    \/ ToDictFromDict
    \/ SetEnv
    \/ DelEnv

\* sections built, read from dictionaries, updated, cleaned and converted to a
\* dictionary and back, while the environment changes
SpecDict == Init /\ [][NextDict]_vars

\* C24: the properties of a RestConfig hold none of the keys port, host,
\* use_https, ssl_cert and ssl_key, and _to_dict has under each of these keys the
\* value of the field: the key is there exactly when the field is not None
C24_FieldKeysApart ==
    \A o \in ObjIds :
        objs[o].live =>
            /\ DOMAIN objs[o].properties \cap FieldKeySet = {}
            /\ \A k \in FieldKeySet :
                   LET as_dict == RestConfig_to_dict(objs, o)
                   IN  IF objs[o].attr[k] = PyNone THEN k \notin DOMAIN as_dict
                       ELSE k \in DOMAIN as_dict /\ as_dict[k] = objs[o].attr[k]

\* an _update with a dictionary holding port and another key went through: the
\* port is the field, the other key is a property
C24_Witness ==
    /\ python_rest # 0
    /\ last_call = "update"
    /\ raised = "none"
    /\ rest_before["port"] # PyInt(8080)
    /\ objs[python_rest].attr["port"] = PyInt(8080)
    /\ DOMAIN objs[python_rest].properties = {"extra"}
    /\ RestConfig_to_dict(objs, python_rest)["port"] = PyInt(8080)

\* C25: RestConfig._from_dict(c._to_dict()) has the five fields of c, a None field
\* being None again, and the properties of c
C25_RoundTrip ==
    last_call = "round_trip" =>
        /\ rest_config_copy # 0
        /\ rest_config_copy # python_rest
        /\ objs[rest_config_copy].attr = objs[python_rest].attr
        /\ objs[rest_config_copy].properties = objs[python_rest].properties

\* a section with port None, a host, and a property whose value is None went
\* through the round trip
C25_Witness ==
    /\ last_call = "round_trip"
    /\ objs[python_rest].attr["port"] = PyNone
    /\ objs[python_rest].attr["host"] # PyNone
    /\ "other" \in DOMAIN objs[python_rest].properties
    /\ objs[rest_config_copy].attr["port"] = PyNone

====
